---- MODULE Spec2Model ----
(***************************************************************************)
(* A model of the warhammer40k10thCalc probability engine                  *)
(* (internal/calculator) : the dice-expression parsers, the per-roll       *)
(* probability calculators, the stage convolvers, the damage-allocation    *)
(* Markov chain and the orchestrator CalculateDamageCore.                  *)
(*                                                                         *)
(* Strings are sequences of one-character strings, so that trimming,       *)
(* strconv.Atoi and the dice regular expression are modelled by what they  *)
(* do to the characters.  A Go map is a function with a finite domain: a   *)
(* key that was written with probability 0 is still a key.  Under Spec a   *)
(* float64 probability is the exact rational <<numerator, denominator>> it *)
(* approximates; SpecFloat models the rounding of floating-point addition  *)
(* and multiplication and the unspecified iteration order of Go maps.      *)
(***************************************************************************)
EXTENDS Integers, Sequences, FiniteSets, TLC

VARIABLES req, pc, err, attacksDist, damageDist, probs, todo,
          hitsDist, woundsDist, pensDist, killedDist, resp, prev, iter, frame, http

vars == <<req, pc, err, attacksDist, damageDist, probs, todo,
          hitsDist, woundsDist, pensDist, killedDist, resp, prev, iter, frame, http>>

----------------------------------------------------------------------------
(* Bounds of the model.                                                    *)

\* longest attacks_string / d string drawn as an input
MaxLen == 3

\* the engine's nested enumeration is run for attack counts up to this
MaxAttacks == 2

\* number of successive calls of CalculateDamageCore in one behaviour
MaxCalls == 2

\* bits of the significand of a floating-point number under SpecFloat
\* (a float64 has 53)
FloatBits == 13

\* under SpecFloat a range loop over a map visits the keys in ascending order
\* rotated by an offset of 0..MaxRotation, drawn once for each call
MaxRotation == 2

\* under SpecCalls: bs, s, t, save and feel_no_pain are drawn up to MaxStat
MaxStat == 8

\* under SpecCalls: every modifier is drawn from -MaxMod..MaxMod
MaxMod == 2

\* under SpecCalls: count, faces and modifier of a dice expression, and a bare
\* integer, are drawn up to MaxDice
MaxDice == 3

\* under SpecCalls: resolveDamageSequential is called with up to MaxWounds
\* normal and up to MaxWounds mortal wounds on a unit of up to MaxModels models
MaxWounds == 2

MaxModels == 3

\* under SpecCalls: a convolver is called for up to MaxTrials rolls of each
\* kind
MaxTrials == 3

\* under SpecCalls: a single wound has a damage of up to MaxDamage
MaxDamage == 7

----------------------------------------------------------------------------
(* Exact rational arithmetic: <<n, d>> with d > 0, in lowest terms.        *)

Abs(x) == IF x < 0 THEN -x ELSE x

RECURSIVE GCD(_, _)
GCD(a, b) == IF b = 0 THEN a ELSE GCD(b, a % b)

RNorm(n, d) == LET g == GCD(Abs(n), d) IN <<n \div g, d \div g>>

R(n, d) == RNorm(n, d)

RZero == <<0, 1>>

ROne == <<1, 1>>

RInt(n) == <<n, 1>>

RAdd(x, y) ==
    LET g == GCD(x[2], y[2])
    IN  RNorm(x[1] * (y[2] \div g) + y[1] * (x[2] \div g), (x[2] \div g) * y[2])

RNeg(x) == <<-x[1], x[2]>>

RSub(x, y) == RAdd(x, RNeg(y))

RMul(x, y) ==
    LET g1 == GCD(Abs(x[1]), y[2])
        g2 == GCD(Abs(y[1]), x[2])
    IN  IF x[1] = 0 \/ y[1] = 0 THEN RZero
        ELSE <<(x[1] \div g1) * (y[1] \div g2), (x[2] \div g2) * (y[2] \div g1)>>

RLeq(x, y) == x[1] * y[2] <= y[1] * x[2]

RLess(x, y) == x[1] * y[2] < y[1] * x[2]

RMax(x, y) == IF RLeq(x, y) THEN y ELSE x

RMin(x, y) == IF RLeq(x, y) THEN x ELSE y

RECURSIVE RPow(_, _)
RPow(x, k) == IF k <= 0 THEN ROne ELSE RMul(x, RPow(x, k - 1))

MinOf(S) == CHOOSE x \in S : \A y \in S : x <= y

MaxOf(S) == CHOOSE x \in S : \A y \in S : y <= x

\* the sum of f[x] over the integers x of S that lie in lo..hi
RECURSIVE RSumRange(_, _, _, _)
RSumRange(S, lo, hi, f) ==
    IF lo > hi THEN RZero
    ELSE IF lo = hi THEN (IF lo \in S THEN f[lo] ELSE RZero)
    ELSE LET mid == (lo + hi) \div 2
         IN  RAdd(RSumRange(S, lo, mid, f), RSumRange(S, mid + 1, hi, f))

\* the sum of f[x] over the x of the set of integers S
RSumOver(S, f) == IF S = {} THEN RZero ELSE RSumRange(S, MinOf(S), MaxOf(S), f)

\* the sum of f[p] over the p of the set of pairs of integers S
RSumPairs(S, f) ==
    RSumOver({p[1] : p \in S},
             [a \in {p[1] : p \in S} |->
                RSumOver({p[2] : p \in {q \in S : q[1] = a}},
                         [b \in {p[2] : p \in S} |-> f[<<a, b>>]])])

\* the sum of the values of a map with integer keys
RSum(m) == RSumOver(DOMAIN m, m)

EmptyMap == [x \in {} |-> RZero]

----------------------------------------------------------------------------
(* Binary floating point with round-to-nearest-even, as float64 has it but *)
(* with a significand of FloatBits bits: <<m, e>> is m * 2^e, with m = 0   *)
(* and e = 0, or 2^(FloatBits-1) <= |m| < 2^FloatBits.  The exponent is    *)
(* unbounded: the engine's values are far from float64's exponent range.   *)

\* the number of bits of a, 0 < a < 2^30
BitLen(a) == CHOOSE n \in 1..30 : 2^(n - 1) <= a /\ a < 2^n

\* m * 2^e rounded to the nearest float, ties to the even significand
FRound(m, e) ==
    IF m = 0 THEN <<0, 0>>
    ELSE LET a    == Abs(m)
             sgn  == IF m < 0 THEN -1 ELSE 1
             n    == BitLen(a)
             sh   == n - FloatBits
             q    == a \div 2^sh
             r    == a % 2^sh
             up   == r > 2^(sh - 1) \/ (r = 2^(sh - 1) /\ q % 2 = 1)
             q1   == IF up THEN q + 1 ELSE q
         IN  IF sh <= 0 THEN <<m * 2^(-sh), e + sh>>
             ELSE IF q1 = 2^FloatBits THEN <<sgn * 2^(FloatBits - 1), e + sh + 1>>
             ELSE <<sgn * q1, e + sh>>

\* float64(n) for an int n
FInt(n) == FRound(n, 0)

FZero == <<0, 0>>

FOne == FInt(1)

\* x * y
FMul(x, y) == FRound(x[1] * y[1], x[2] + y[2])

\* x + y: the exact sum rounded; an operand below a quarter of the last
\* place of the other does not change it
FAdd(x, y) ==
    IF x[1] = 0 THEN y
    ELSE IF y[1] = 0 THEN x
    ELSE LET hi == IF x[2] >= y[2] THEN x ELSE y
             lo == IF x[2] >= y[2] THEN y ELSE x
             d  == hi[2] - lo[2]
         IN  IF d > FloatBits + 1 THEN hi
             ELSE FRound(hi[1] * 2^d + lo[1], lo[2])

FNeg(x) == <<-x[1], x[2]>>

\* x - y
FSub(x, y) == FAdd(x, FNeg(y))

\* x / y for y # 0: the quotient to FloatBits + 2 bits and a sticky bit for
\* the remainder, rounded
FDiv(x, y) ==
    IF x[1] = 0 THEN FZero
    ELSE LET k   == FloatBits + 1
             num == Abs(x[1]) * 2^k
             den == Abs(y[1])
             q   == num \div den
             st  == IF num % den = 0 THEN 0 ELSE 1
             sgn == IF (x[1] < 0) = (y[1] < 0) THEN 1 ELSE -1
         IN  FRound(sgn * (2 * q + st), x[2] - y[2] - k - 1)

\* x <= y and x < y: rounding never changes the sign of a difference
FLeq(x, y) == FSub(x, y)[1] <= 0

FLess(x, y) == FSub(x, y)[1] < 0

\* math.Max and math.Min
FMax(x, y) == IF FLeq(x, y) THEN y ELSE x

FMin(x, y) == IF FLeq(x, y) THEN x ELSE y

----------------------------------------------------------------------------
(* Strings: sequences of one-character strings.                            *)

Digits == {"0", "1", "2", "3", "4", "5", "6", "7", "8", "9"}

DigitSeq == <<"0", "1", "2", "3", "4", "5", "6", "7", "8", "9">>

DigitVal(c) == (CHOOSE i \in 1..10 : DigitSeq[i] = c) - 1

\* unicode.IsSpace restricted to the characters of the model's alphabet
IsSpace(c) == c = " "

\* the index of the first character at or after i that is no digit
RECURSIVE SkipDigits(_, _)
SkipDigits(s, i) ==
    IF i <= Len(s) /\ s[i] \in Digits THEN SkipDigits(s, i + 1) ELSE i

\* the index of the first character at or after i that is no white space
RECURSIVE SkipSpaces(_, _)
SkipSpaces(s, i) ==
    IF i <= Len(s) /\ IsSpace(s[i]) THEN SkipSpaces(s, i + 1) ELSE i

\* the index of the last character at or before i that is no white space
RECURSIVE SkipSpacesBack(_, _)
SkipSpacesBack(s, i) ==
    IF i >= 1 /\ IsSpace(s[i]) THEN SkipSpacesBack(s, i - 1) ELSE i

\* strings.TrimSpace
TrimSpace(s) ==
    LET a == SkipSpaces(s, 1)
        b == SkipSpacesBack(s, Len(s))
    IN  IF a > b THEN <<>> ELSE SubSeq(s, a, b)

\* strings.ToLower on the model's alphabet
ToLower(s) == [i \in 1..Len(s) |-> IF s[i] = "D" THEN "d" ELSE s[i]]

\* the value of a non-empty run of decimal digits
RECURSIVE DecVal(_)
DecVal(s) ==
    IF Len(s) = 0 THEN 0
    ELSE 10 * DecVal(SubSeq(s, 1, Len(s) - 1)) + DigitVal(s[Len(s)])

AllDigits(s) == \A i \in 1..Len(s) : s[i] \in Digits

\* strconv.Atoi: an optional sign and at least one decimal digit
Atoi(s) ==
    LET signed == Len(s) >= 1 /\ s[1] \in {"+", "-"}
        body   == IF signed THEN SubSeq(s, 2, Len(s)) ELSE s
    IN  IF Len(body) >= 1 /\ AllDigits(body)
        THEN [ok |-> TRUE,
              val |-> IF signed /\ s[1] = "-" THEN -DecVal(body) ELSE DecVal(body)]
        ELSE [ok |-> FALSE, val |-> 0]

\* diceRegex.FindStringSubmatch: (?i)^(\d*)d(\d+)\s*\+?\s*(\d*)$
\* Every quantifier is greedy and no two adjacent pieces can match the same
\* character except group 2 and group 3, where the leftmost-first rule gives
\* group 2 the whole run of digits.
diceRegex(s) ==
    LET n  == Len(s)
        i1 == SkipDigits(s, 1)
        i2 == SkipDigits(s, i1 + 1)
        i3 == SkipSpaces(s, i2)
        i4 == IF i3 <= n /\ s[i3] = "+" THEN i3 + 1 ELSE i3
        i5 == SkipSpaces(s, i4)
        i6 == SkipDigits(s, i5)
    IN  IF /\ i1 <= n
           /\ s[i1] \in {"d", "D"}
           /\ i2 > i1 + 1
           /\ i6 = n + 1
        THEN [ok |-> TRUE,
              count    |-> SubSeq(s, 1, i1 - 1),
              faces    |-> SubSeq(s, i1 + 1, i2 - 1),
              modifier |-> SubSeq(s, i5, n)]
        ELSE [ok |-> FALSE, count |-> <<>>, faces |-> <<>>, modifier |-> <<>>]

----------------------------------------------------------------------------
(* Dice distributions.                                                     *)

\* a faulty AddDie: the faces of the die are numbered from 0
AddDieFromZero(dist, faces) ==
    [k \in {s + r : s \in DOMAIN dist, r \in 0..(faces - 1)} |->
        RSumOver({s \in DOMAIN dist : k - s \in 0..(faces - 1)},
                 [s \in DOMAIN dist |-> RMul(dist[s], R(1, faces))])]

\* one more die of the given number of faces added to every sum of dist:
\* newDist[currentSum+roll] += currentProb * probPerFace
AddDie(dist, faces) ==
    [k \in {s + r : s \in DOMAIN dist, r \in 1..faces} |->
        RSumOver({s \in DOMAIN dist : k - s \in 1..faces},
                 [s \in DOMAIN dist |-> RMul(dist[s], R(1, faces))])]

RECURSIVE RollDice(_, _, _)
RollDice(dist, count, faces) ==
    IF count <= 0 THEN dist ELSE RollDice(AddDie(dist, faces), count - 1, faces)

\* finalDist[sumVal+modifier] = prob
Shift(dist, modifier) ==
    [k \in {s + modifier : s \in DOMAIN dist} |-> dist[k - modifier]]

\* CalculateAttackDistribution: [ok, dist]; ok = FALSE is the returned error
CalculateAttackDistribution(attackStr) ==
    LET s       == TrimSpace(attackStr)
        fixed   == Atoi(s)
        matches == diceRegex(s)
        numDice == IF matches.count # <<>> THEN DecVal(matches.count) ELSE 1
        dieType == DecVal(matches.faces)
        modifier == IF matches.modifier # <<>> THEN DecVal(matches.modifier) ELSE 0
    IN  IF fixed.ok THEN [ok |-> TRUE, dist |-> (fixed.val :> ROne)]
        ELSE IF ~matches.ok THEN [ok |-> FALSE, dist |-> EmptyMap]
        ELSE [ok |-> TRUE,
              dist |-> Shift(RollDice((0 :> ROne), numDice, dieType), modifier)]

\* parseAndCalculateBaseDamage: never fails; a string that is neither a dice
\* expression nor an integer gives {0: 1.0}
parseAndCalculateBaseDamage(damageString) ==
    LET normalized == ToLower(TrimSpace(damageString))
        matches    == diceRegex(normalized)
        fixed      == Atoi(normalized)
        count      == IF matches.count # <<>> THEN DecVal(matches.count) ELSE 1
        faces      == DecVal(matches.faces)
        modifier   == IF matches.modifier # <<>> THEN DecVal(matches.modifier) ELSE 0
        oneDie     == [i \in 1..faces |-> R(1, faces)]
    IN  IF ~matches.ok
        THEN IF fixed.ok THEN (fixed.val :> ROne) ELSE (0 :> ROne)
        ELSE IF count = 0 THEN (modifier :> ROne)
        ELSE Shift(RollDice(oneDie, count - 1, faces), modifier)

\* the loop of nCr: res = res * (n - i + 1) / i for i = 1..k
RECURSIVE nCrLoop(_, _, _, _)
nCrLoop(res, i, n, k) ==
    IF i > k THEN res ELSE nCrLoop((res * (n - i + 1)) \div i, i + 1, n, k)

nCr(n, k) ==
    IF k < 0 \/ k > n THEN 0
    ELSE IF k = 0 \/ k = n THEN 1
    ELSE nCrLoop(1, 1, n, IF k > n \div 2 THEN n - k ELSE k)

\* the chance that Feel No Pain saves one point of damage
fnpSave(fnpVal) ==
    IF fnpVal <= 6 /\ fnpVal >= 2 THEN R(7 - fnpVal, 6)
    ELSE IF fnpVal <= 1 THEN ROne
    ELSE RZero

applyFeelNoPain(baseDist, fnpVal) ==
    LET pSave == fnpSave(fnpVal)
        pFail == RSub(ROne, pSave)
        probKFailed(n, k) ==
            RMul(RInt(nCr(n, k)), RMul(RPow(pFail, k), RPow(pSave, n - k)))
    IN  [k \in UNION {0..n : n \in DOMAIN baseDist} |->
            RSumOver({n \in DOMAIN baseDist : k <= n},
                     [n \in DOMAIN baseDist |-> RMul(baseDist[n], probKFailed(n, k))])]

\* an optional integer (*int): Nil, or Some(v) holding v
Nil == <<>>

Some(v) == <<v>>

\* _calculateDamageDistribution
calculateDamageDistribution(damageString, feelNoPain) ==
    LET baseDist == parseAndCalculateBaseDamage(damageString)
    IN  IF feelNoPain = Nil THEN baseDist
        ELSE applyFeelNoPain(baseDist, feelNoPain[1])

----------------------------------------------------------------------------
(* Per-roll probabilities.                                                 *)

RerollNone == "none"

RerollOnes == "ones"

RerollFail == "fail"

RerollType == {RerollNone, RerollOnes, RerollFail}

oneSixth == R(1, 6)

fiveSixths == R(5, 6)

\* a faulty _calculateHitProbability: with reroll "fail" the lethal share is
\* taken from the miss chance left after the reroll, not from the one before
calculateHitProbabilityLateMiss(bs, rerollType, hitModifier, lethalHits) ==
    LET targetRollChance == R(7 - bs + hitModifier, 6)
        base == RMax(oneSixth, RMin(targetRollChance, fiveSixths))
        hitChance ==
            IF rerollType = RerollOnes THEN RAdd(base, RMul(oneSixth, base))
            ELSE IF rerollType = RerollFail THEN RAdd(base, RMul(RSub(ROne, base), base))
            ELSE base
        lethalHitChance ==
            IF rerollType = RerollOnes THEN RAdd(oneSixth, RMul(oneSixth, oneSixth))
            ELSE IF rerollType = RerollFail
                 THEN RAdd(oneSixth, RMul(RSub(ROne, hitChance), oneSixth))
            ELSE oneSixth
    IN  IF lethalHits
        THEN <<RMax(RZero, RSub(hitChance, lethalHitChance)), lethalHitChance>>
        ELSE <<hitChance, RZero>>

\* _calculateHitProbability: <<hitChance, lethalHitChance>>
calculateHitProbability(bs, rerollType, hitModifier, lethalHits) ==
    LET targetRollChance == R(7 - bs + hitModifier, 6)
        base == RMax(oneSixth, RMin(targetRollChance, fiveSixths))
        missChance == RSub(ROne, base)
        hitChance ==
            IF rerollType = RerollOnes THEN RAdd(base, RMul(oneSixth, base))
            ELSE IF rerollType = RerollFail THEN RAdd(base, RMul(missChance, base))
            ELSE base
        lethalHitChance ==
            IF rerollType = RerollOnes THEN RAdd(oneSixth, RMul(oneSixth, oneSixth))
            ELSE IF rerollType = RerollFail THEN RAdd(oneSixth, RMul(missChance, oneSixth))
            ELSE oneSixth
    IN  IF lethalHits
        THEN <<RMax(RZero, RSub(hitChance, lethalHitChance)), lethalHitChance>>
        ELSE <<hitChance, RZero>>

\* a faulty targetRoll: a toughness of exactly twice the strength still
\* wounds on 5+
targetRollStrict(s, t) ==
    IF s * 2 < t THEN 6
    ELSE IF s < t THEN 5
    ELSE IF s >= t * 2 THEN 2
    ELSE IF s > t THEN 3
    ELSE 4

\* a faulty targetRoll: any strength above the toughness wounds on 2+
targetRollAboveIsTwo(s, t) ==
    IF s * 2 <= t THEN 6
    ELSE IF s < t THEN 5
    ELSE IF s > t THEN 2
    ELSE 4

\* the wound roll needed for strength s against toughness t
targetRoll(s, t) ==
    IF s * 2 <= t THEN 6
    ELSE IF s < t THEN 5
    ELSE IF s >= t * 2 THEN 2
    ELSE IF s > t THEN 3
    ELSE 4

\* a faulty _calculateWoundProbability: the devastating wounds are taken out
\* of the chance of the first roll, not of the chance with the rerolls
calculateWoundProbabilityFirstRoll(s, t, rerollType, woundModifier, devastatingWounds) ==
    LET raw == targetRoll(s, t) - woundModifier
        finalTargetRoll == IF raw < 2 THEN 2 ELSE IF raw > 6 THEN 6 ELSE raw
        base == R(7 - finalTargetRoll, 6)
        missChance == RSub(ROne, base)
        woundChance ==
            IF rerollType = RerollOnes THEN RAdd(base, RMul(oneSixth, base))
            ELSE IF rerollType = RerollFail THEN RAdd(base, RMul(missChance, base))
            ELSE base
        devastatingWoundChance ==
            IF rerollType = RerollOnes THEN RAdd(oneSixth, RMul(oneSixth, oneSixth))
            ELSE IF rerollType = RerollFail THEN RAdd(oneSixth, RMul(missChance, oneSixth))
            ELSE oneSixth
    IN  IF devastatingWounds
        THEN <<RMax(RZero, RSub(base, devastatingWoundChance)), devastatingWoundChance>>
        ELSE <<woundChance, RZero>>

\* _calculateWoundProbability: <<woundChance, devastatingWoundChance>>
calculateWoundProbability(s, t, rerollType, woundModifier, devastatingWounds) ==
    LET raw == targetRoll(s, t) - woundModifier
        finalTargetRoll == IF raw < 2 THEN 2 ELSE IF raw > 6 THEN 6 ELSE raw
        base == R(7 - finalTargetRoll, 6)
        missChance == RSub(ROne, base)
        woundChance ==
            IF rerollType = RerollOnes THEN RAdd(base, RMul(oneSixth, base))
            ELSE IF rerollType = RerollFail THEN RAdd(base, RMul(missChance, base))
            ELSE base
        devastatingWoundChance ==
            IF rerollType = RerollOnes THEN RAdd(oneSixth, RMul(oneSixth, oneSixth))
            ELSE IF rerollType = RerollFail THEN RAdd(oneSixth, RMul(missChance, oneSixth))
            ELSE oneSixth
    IN  IF devastatingWounds
        THEN <<RMax(RZero, RSub(woundChance, devastatingWoundChance)),
               devastatingWoundChance>>
        ELSE <<woundChance, RZero>>

\* a faulty _calculateFailedSaveProbability: the save modifier improves the
\* invulnerable save as well
calculateFailedSaveProbabilityModInv(ap, save, invulnerable, saveModifier) ==
    LET armorSaveTarget == save + ap - saveModifier
        best == IF invulnerable # Nil /\ invulnerable[1] - saveModifier < armorSaveTarget
                THEN invulnerable[1] - saveModifier ELSE armorSaveTarget
        finalTarget == IF best < 2 THEN 2 ELSE best
    IN  IF finalTarget > 6 THEN ROne
        ELSE RSub(ROne, R(7 - finalTarget, 6))

\* _calculateFailedSaveProbability
calculateFailedSaveProbability(ap, save, invulnerable, saveModifier) ==
    LET armorSaveTarget == save + ap - saveModifier
        best == IF invulnerable # Nil /\ invulnerable[1] < armorSaveTarget
                THEN invulnerable[1] ELSE armorSaveTarget
        finalTarget == IF best < 2 THEN 2 ELSE best
    IN  IF finalTarget > 6 THEN ROne
        ELSE RSub(ROne, R(7 - finalTarget, 6))

----------------------------------------------------------------------------
(* Stage convolvers.  A result key is a pair: <<normal, lethal>> for hits, *)
(* <<normal, devastating>> for wounds, <<normal, mortal>> for unsaved.     *)

\* m[k] of a Go map that is being accumulated into: 0 for an absent key
Get(m, k) == IF k \in DOMAIN m THEN m[k] ELSE RZero

\* a faulty hitTrial: the chance of a miss leaves out the lethal hits
hitTrialMissOfNormal(res, pHit, pLethal) ==
    [k \in DOMAIN res \cup {<<st[1] + 1, st[2]>> : st \in DOMAIN res}
                      \cup {<<st[1], st[2] + 1>> : st \in DOMAIN res} |->
        RAdd(RMul(Get(res, k), RSub(ROne, pHit)),
             RAdd(RMul(Get(res, <<k[1] - 1, k[2]>>), pHit),
                  RMul(Get(res, <<k[1], k[2] - 1>>), pLethal)))]

\* one pass of the loop body of getHitOutcomes over res
hitTrial(res, pHit, pLethal) ==
    [k \in DOMAIN res \cup {<<st[1] + 1, st[2]>> : st \in DOMAIN res}
                      \cup {<<st[1], st[2] + 1>> : st \in DOMAIN res} |->
        RAdd(RMul(Get(res, k), RSub(ROne, RAdd(pHit, pLethal))),
             RAdd(RMul(Get(res, <<k[1] - 1, k[2]>>), pHit),
                  RMul(Get(res, <<k[1], k[2] - 1>>), pLethal)))]

RECURSIVE hitTrials(_, _, _, _)
hitTrials(res, i, pHit, pLethal) ==
    IF i <= 0 THEN res ELSE hitTrials(hitTrial(res, pHit, pLethal), i - 1, pHit, pLethal)

getHitOutcomes(n, pHit, pLethal) == hitTrials((<<0, 0>> :> ROne), n, pHit, pLethal)

\* one pass of the loop body of getWoundOutcomes over res
woundTrial(res, pWound, pDev) ==
    [k \in DOMAIN res \cup {<<st[1] + 1, st[2]>> : st \in DOMAIN res}
                      \cup {<<st[1], st[2] + 1>> : st \in DOMAIN res} |->
        RAdd(RMul(Get(res, k), RSub(ROne, RAdd(pWound, pDev))),
             RAdd(RMul(Get(res, <<k[1] - 1, k[2]>>), pWound),
                  RMul(Get(res, <<k[1], k[2] - 1>>), pDev)))]

RECURSIVE woundTrials(_, _, _, _)
woundTrials(res, i, pWound, pDev) ==
    IF i <= 0 THEN res ELSE woundTrials(woundTrial(res, pWound, pDev), i - 1, pWound, pDev)

\* a faulty getWoundOutcomes: the lethal hits roll to wound like the others
getWoundOutcomesLethalRolls(nHit, lHit, pWound, pDev) ==
    woundTrials((<<0, 0>> :> ROne), nHit + lHit, pWound, pDev)

getWoundOutcomes(nHit, lHit, pWound, pDev) ==
    woundTrials((<<lHit, 0>> :> ROne), nHit, pWound, pDev)

\* one pass of the first loop body of getUnsavedOutcomes: a save roll
saveTrial(res, pFail) ==
    [k \in DOMAIN res \cup {<<st[1] + 1, st[2]>> : st \in DOMAIN res} |->
        RAdd(RMul(Get(res, k), RSub(ROne, pFail)),
             RMul(Get(res, <<k[1] - 1, k[2]>>), pFail))]

RECURSIVE saveTrials(_, _, _)
saveTrials(res, i, pFail) ==
    IF i <= 0 THEN res ELSE saveTrials(saveTrial(res, pFail), i - 1, pFail)

\* one pass of the second loop body: a devastating wound is never saved
mortalTrial(res) ==
    [k \in {<<st[1], st[2] + 1>> : st \in DOMAIN res} |-> res[<<k[1], k[2] - 1>>]]

RECURSIVE mortalTrials(_, _)
mortalTrials(res, i) == IF i <= 0 THEN res ELSE mortalTrials(mortalTrial(res), i - 1)

\* a faulty getUnsavedOutcomes: the devastating wounds roll saves like the
\* others
getUnsavedOutcomesAllSave(nWnd, dWnd, pFail) ==
    saveTrials((<<0, 0>> :> ROne), nWnd + dWnd, pFail)

getUnsavedOutcomes(nWnd, dWnd, pFail) ==
    mortalTrials(saveTrials((<<0, 0>> :> ROne), nWnd, pFail), dWnd)

----------------------------------------------------------------------------
(* Damage allocation.  A UnitState is the pair <<Killed, CurrentHP>>.      *)

\* a faulty spillStep: killed is not counted up
spillStepNoKill(rem, hp, killed, maxHP) ==
    IF rem >= hp THEN [rem |-> rem - hp, hp |-> maxHP, killed |-> killed]
    ELSE [rem |-> 0, hp |-> hp - rem, killed |-> killed]

\* the body of the mortal-wound loop of applyWounds: rem, hp and killed after
\* one pass
spillStep(rem, hp, killed, maxHP) ==
    IF rem >= hp THEN [rem |-> rem - hp, hp |-> maxHP, killed |-> killed + 1]
    ELSE [rem |-> 0, hp |-> hp - rem, killed |-> killed]

\* a faulty spill: the next model keeps the hit points of the one just killed
RECURSIVE spillNoReset(_, _, _, _, _)
spillNoReset(rem, hp, killed, maxHP, totalModels) ==
    IF rem > 0 /\ killed < totalModels
    THEN IF rem >= hp
         THEN spillNoReset(rem - hp, hp, killed + 1, maxHP, totalModels)
         ELSE spillNoReset(0, hp - rem, killed, maxHP, totalModels)
    ELSE <<killed, hp>>

\* the mortal-wound loop of applyWounds: for rem > 0 && killed < totalModels
RECURSIVE spill(_, _, _, _, _)
spill(rem, hp, killed, maxHP, totalModels) ==
    IF rem > 0 /\ killed < totalModels
    THEN IF rem >= hp
         THEN spill(rem - hp, maxHP, killed + 1, maxHP, totalModels)
         ELSE spill(0, hp - rem, killed, maxHP, totalModels)
    ELSE <<killed, hp>>

\* a faulty woundTarget: a normal wound of exactly the remaining hit points
\* does not kill
woundTargetStrict(st, dVal, maxHP, totalModels, spills) ==
    IF spills THEN spill(dVal, st[2], st[1], maxHP, totalModels)
    ELSE IF dVal > st[2] THEN <<st[1] + 1, maxHP>>
    ELSE <<st[1], st[2] - dVal>>

\* the state one wound of damage dVal moves the state st to
woundTarget(st, dVal, maxHP, totalModels, spills) ==
    IF spills THEN spill(dVal, st[2], st[1], maxHP, totalModels)
    ELSE IF dVal >= st[2] THEN <<st[1] + 1, maxHP>>
    ELSE <<st[1], st[2] - dVal>>

applyWounds(states, dmgDist, maxHP, totalModels, spills) ==
    LET dead == {st \in DOMAIN states : st[1] >= totalModels}
        live == DOMAIN states \ dead
        to(st, dVal) == woundTarget(st, dVal, maxHP, totalModels, spills)
    IN  [k \in dead \cup {to(st, dVal) : st \in live, dVal \in DOMAIN dmgDist} |->
            RAdd(IF k \in dead THEN states[k] ELSE RZero,
                 RSumPairs(live,
                     [st \in live |->
                        RSumOver({dVal \in DOMAIN dmgDist : to(st, dVal) = k},
                                 [dVal \in DOMAIN dmgDist |->
                                    RMul(states[st], dmgDist[dVal])])]))]

RECURSIVE applyWoundsTimes(_, _, _, _, _, _)
applyWoundsTimes(states, i, dmgDist, maxHP, totalModels, spills) ==
    IF i <= 0 THEN states
    ELSE applyWoundsTimes(applyWounds(states, dmgDist, maxHP, totalModels, spills),
                          i - 1, dmgDist, maxHP, totalModels, spills)

\* the unit states after the normal and then the mortal wounds
allocate(nNorm, nMortal, dmgDist, maxHP, totalModels) ==
    applyWoundsTimes(
        applyWoundsTimes((<<0, maxHP>> :> ROne), nNorm, dmgDist, maxHP, totalModels, FALSE),
        nMortal, dmgDist, maxHP, totalModels, TRUE)

resolveDamageSequential(nNorm, nMortal, dmgDist, maxHP, totalModels) ==
    LET states == allocate(nNorm, nMortal, dmgDist, maxHP, totalModels)
    IN  [k \in {st[1] : st \in DOMAIN states} |->
            RSumPairs({st \in DOMAIN states : st[1] = k}, states)]

----------------------------------------------------------------------------
(* The orchestrator CalculateDamageCore.                                   *)

\* One iteration of the outer loop of CalculateDamageCore, for the attack
\* count numAttacks of probability pAtk: the four accumulators afterwards.
\* H, W, U and K are hitOutcomes, woundOutcomes, unsavedOutcomes and killedMap
\* for each branch of the enumeration.
attackIteration(numAttacks, pAtk, r, pr, dmg, acc) ==
    LET H == getHitOutcomes(numAttacks, pr.hitP, pr.lethalP)
        W(ho) == getWoundOutcomes(ho[1], ho[2], pr.woundP, pr.devP)
        U(wo) == getUnsavedOutcomes(wo[1], wo[2], pr.saveFailP)
        K(uo) == resolveDamageSequential(uo[1], uo[2], dmg, r.WoundsPerModel, r.NumModels)
        HO == DOMAIN H
        WO == UNION {DOMAIN W(ho) : ho \in HO}
        UO == UNION {DOMAIN U(wo) : wo \in WO}
        WT == [ho \in HO |-> W(ho)]
        UT == [wo \in WO |-> U(wo)]
        KT == [uo \in UO |-> K(uo)]
        \* the weight pAtk * pHO * pWO * pUO of a branch, and its parts
        pHit(ho) == RMul(pAtk, H[ho])
        pWnd(ho, wo) == RMul(pHit(ho), WT[ho][wo])
        pUns(ho, wo, uo) == RMul(pWnd(ho, wo), UT[wo][uo])
        \* what the branches below ho, wo, uo add to the entry k
        pensOf(ho, wo, k) ==
            RSumPairs({uo \in DOMAIN UT[wo] : uo[1] + uo[2] = k},
                      [uo \in DOMAIN UT[wo] |-> pUns(ho, wo, uo)])
        killedOf(ho, wo, k) ==
            RSumPairs({uo \in DOMAIN UT[wo] : k \in DOMAIN KT[uo]},
                      [uo \in DOMAIN UT[wo] |-> RMul(pUns(ho, wo, uo), KT[uo][k])])
        overWounds(ho, S, f(_, _)) ==
            RSumPairs(S, [wo \in DOMAIN WT[ho] |-> f(ho, wo)])
        overHits(f(_)) == RSumPairs(HO, [ho \in HO |-> f(ho)])
    IN  [hits |->
            [k \in DOMAIN acc.hits \cup {ho[1] + ho[2] : ho \in HO} |->
                RAdd(Get(acc.hits, k),
                     RSumPairs({ho \in HO : ho[1] + ho[2] = k},
                               [ho \in HO |-> pHit(ho)]))],
         wounds |->
            [k \in DOMAIN acc.wounds \cup {wo[1] + wo[2] : wo \in WO} |->
                RAdd(Get(acc.wounds, k),
                     overHits(LAMBDA ho :
                        overWounds(ho, {wo \in DOMAIN WT[ho] : wo[1] + wo[2] = k},
                                   pWnd)))],
         pens |->
            [k \in DOMAIN acc.pens \cup {uo[1] + uo[2] : uo \in UO} |->
                RAdd(Get(acc.pens, k),
                     overHits(LAMBDA ho :
                        overWounds(ho, DOMAIN WT[ho],
                                   LAMBDA h, wo : pensOf(h, wo, k))))],
         killed |->
            [k \in DOMAIN acc.killed \cup UNION {DOMAIN KT[uo] : uo \in UO} |->
                RAdd(Get(acc.killed, k),
                     overHits(LAMBDA ho :
                        overWounds(ho, DOMAIN WT[ho],
                                   LAMBDA h, wo : killedOf(h, wo, k))))]]

\* sum of k * dist[k]
average(dist) == RSumOver(DOMAIN dist, [k \in DOMAIN dist |-> RMul(RInt(k), dist[k])])

formatResponse(hits, wounds, pens, killed) ==
    [AverageHits           |-> average(hits),
     AverageDestroyed      |-> average(killed),
     HitsDistribution      |-> hits,
     WoundsDistribution    |-> wounds,
     PensDistribution      |-> pens,
     DestroyedDistribution |-> killed,
     Message               |-> Cardinality(DOMAIN killed)]

\* damagerequest.DamageResponse{}: the zero value returned beside an error
EmptyResponse ==
    [AverageHits           |-> RZero,
     AverageDestroyed      |-> RZero,
     HitsDistribution      |-> EmptyMap,
     WoundsDistribution    |-> EmptyMap,
     PensDistribution      |-> EmptyMap,
     DestroyedDistribution |-> EmptyMap,
     Message               |-> 0]

NoProbs == [hitP |-> RZero, lethalP |-> RZero, woundP |-> RZero, devP |-> RZero,
            saveFailP |-> RZero]

\* the positions of the nested range loops of CalculateDamageCore, kept under
\* SpecFloat: the rotation of this call, the keys each loop has still to
\* visit, and numAttacks, hitOutcomes, ho and woundOutcomes of the iteration
\* under way; under SpecCalls, the arguments numAttacks, ho and wo of a call
\* of a convolver and the map it returns
NoIter ==
    [order         |-> 0,
     atkTodo       |-> <<>>,
     numAttacks    |-> 0,
     hitOutcomes   |-> EmptyMap,
     hoTodo        |-> <<>>,
     ho            |-> <<0, 0>>,
     woundOutcomes |-> EmptyMap,
     woTodo        |-> <<>>,
     wo            |-> <<0, 0>>,
     unsavedOutcomes |-> EmptyMap]

\* a call of resolveDamageSequential, kept under SpecCalls: its arguments
\* nNorm and nMortal, the counters i of its two loops (iNorm, iMortal) and its
\* map states; for a single call of applyWounds on the one state st, the
\* argument spills, and states before and after the call; under SpecLive,
\* killed and hp (st) and rem of the mortal-wound loop of applyWounds
NoFrame ==
    [nNorm   |-> 0,
     nMortal |-> 0,
     iNorm   |-> 0,
     iMortal |-> 0,
     states  |-> EmptyMap,
     st      |-> <<0, 0>>,
     spills  |-> FALSE,
     rem     |-> 0]

----------------------------------------------------------------------------
(* The requests the model draws: a base request varied one group of fields *)
(* at a time.                                                              *)

\* the characters of an attacks_string or d string
Alphabet == {"0", "1", "2", "3", "d", "D", "+", "-", " ", "x"}

\* every string of at most MaxLen characters
Strings == UNION {[1..n -> Alphabet] : n \in 0..MaxLen}

BaseRequest ==
    [NumModels         |-> 2,
     WoundsPerModel    |-> 2,
     AttacksString     |-> <<"1">>,
     BS                |-> 4,
     S                 |-> 4,
     AP                |-> 0,
     D                 |-> <<"1">>,
     T                 |-> 4,
     Save              |-> 4,
     Invulnerable      |-> Nil,
     FeelNoPain        |-> Nil,
     HitReroll         |-> RerollNone,
     WoundReroll       |-> RerollNone,
     HitModifier       |-> 0,
     WoundModifier     |-> 0,
     SaveModifier      |-> 0,
     LethalHits        |-> FALSE,
     DevastatingWounds |-> FALSE,
     Torrent           |-> FALSE]

\* every attacks_string
AttackRequests == {[BaseRequest EXCEPT !.AttacksString = a] : a \in Strings}

\* every d string
DamageRequests == {[BaseRequest EXCEPT !.D = d] : d \in Strings}

\* the fields read by _calculateHitProbability, and torrent
HitRequests ==
    {[BaseRequest EXCEPT !.BS = bs, !.HitModifier = hm, !.HitReroll = rr,
                         !.LethalHits = lh, !.Torrent = tor, !.AttacksString = a] :
        bs \in 0..7, hm \in -1..1, rr \in RerollType, lh \in BOOLEAN,
        tor \in BOOLEAN, a \in {<<"1">>, <<"2">>}}

\* the fields read by _calculateWoundProbability
WoundRequests ==
    {[BaseRequest EXCEPT !.S = st, !.T = t, !.WoundModifier = wm, !.WoundReroll = rr,
                         !.DevastatingWounds = dev] :
        st \in 1..4, t \in 1..4, wm \in -1..1, rr \in RerollType, dev \in BOOLEAN}

\* the fields read by _calculateFailedSaveProbability
SaveRequests ==
    {[BaseRequest EXCEPT !.AP = ap, !.Save = sv, !.Invulnerable = inv,
                         !.SaveModifier = sm] :
        ap \in 0..3, sv \in 2..7, inv \in {Nil, Some(4), Some(6)}, sm \in -1..1}

\* the defending unit and the damage of a wound
UnitRequests ==
    {[BaseRequest EXCEPT !.NumModels = nm, !.WoundsPerModel = wpm, !.D = d,
                         !.FeelNoPain = fnp, !.DevastatingWounds = dev,
                         !.AttacksString = <<"2">>, !.Save = 7] :
        nm \in -1..3, wpm \in -1..3, d \in {<<"1">>, <<"2">>, <<"d", "3">>},
        fnp \in {Nil, Some(1), Some(5), Some(7)}, dev \in BOOLEAN}

\* the request of the "Verification Case" of the distribution tests, with its
\* save of 6 and with no save at all
VerificationRequests ==
    {[BaseRequest EXCEPT !.NumModels = 1, !.WoundsPerModel = 1, !.S = 5, !.T = 3,
                         !.Save = sv] : sv \in {6, 7}}

Requests == AttackRequests \cup DamageRequests \cup HitRequests \cup WoundRequests
                \cup SaveRequests \cup UnitRequests \cup VerificationRequests

\* an HTTP exchange, kept under SpecHttp: the request (its method, its
\* headers and its body), the position in LoggingMiddleware and
\* CalculateDamageHandler (stage), reqID of the middleware, the context of
\* the request, reqID of the handler, and the response (its headers, its
\* status and the request_uuid of its JSON body; NoBody while nothing has
\* been written)
NoBody == [written |-> FALSE, request_uuid |-> ""]

NoHttp ==
    [stage        |-> "none",
     method       |-> "POST",
     header       |-> <<>>,
     body         |-> [kind |-> "empty", value |-> BaseRequest],
     reqID        |-> "",
     generated    |-> FALSE,
     ctx          |-> <<>>,
     handlerReqID |-> "",
     respHeader   |-> <<>>,
     status       |-> 0,
     respBody     |-> NoBody]

----------------------------------------------------------------------------
(* CalculateDamageCore as a state machine.  pc is the position in it:      *)
(* "start", "parsed" (attacksDist is set), "loop" (inside the outer loop,  *)
(* todo holds the attack counts not yet visited), "done" (returned a       *)
(* response and a nil error), "error" (returned an error).                 *)

Init ==
    /\ req \in Requests
    /\ pc = "start"
    /\ err = FALSE
    /\ attacksDist = EmptyMap
    /\ damageDist = EmptyMap
    /\ probs = NoProbs
    /\ todo = {}
    /\ hitsDist = EmptyMap
    /\ woundsDist = EmptyMap
    /\ pensDist = EmptyMap
    /\ killedDist = EmptyMap
    /\ resp = EmptyResponse
    /\ prev = <<>>
    /\ iter = NoIter
    /\ frame = NoFrame
    /\ http = NoHttp

\* attacksDist, err := CalculateAttackDistribution(req.AttacksString)
\* and the return of the empty response when err != nil
ParseAttacks ==
    /\ pc = "start"
    /\ LET a == CalculateAttackDistribution(req.AttacksString)
       IN  IF a.ok
           THEN /\ attacksDist' = a.dist
                /\ pc' = "parsed"
                /\ UNCHANGED <<err, resp>>
           ELSE /\ err' = TRUE
                /\ resp' = EmptyResponse
                /\ pc' = "error"
                /\ UNCHANGED attacksDist
    /\ UNCHANGED <<req, damageDist, probs, todo, hitsDist, woundsDist, pensDist,
                   killedDist, prev, iter, frame, http>>

\* the damage distribution, the five probabilities and the empty accumulators;
\* the model follows a request on only while its attack counts are at most
\* MaxAttacks
Setup ==
    /\ pc = "parsed"
    /\ \A n \in DOMAIN attacksDist : n <= MaxAttacks
    /\ damageDist' = calculateDamageDistribution(req.D, req.FeelNoPain)
    /\ LET h == calculateHitProbability(req.BS, req.HitReroll, req.HitModifier,
                                        req.LethalHits)
           w == calculateWoundProbability(req.S, req.T, req.WoundReroll,
                                          req.WoundModifier, req.DevastatingWounds)
       IN  probs' = [hitP      |-> h[1],
                     lethalP   |-> h[2],
                     woundP    |-> w[1],
                     devP      |-> w[2],
                     saveFailP |-> calculateFailedSaveProbability(
                                       req.AP, req.Save, req.Invulnerable,
                                       req.SaveModifier)]
    /\ hitsDist' = EmptyMap
    /\ woundsDist' = EmptyMap
    /\ pensDist' = EmptyMap
    /\ killedDist' = EmptyMap
    /\ todo' = DOMAIN attacksDist
    /\ pc' = "loop"
    /\ UNCHANGED <<req, err, attacksDist, resp, prev, iter, frame, http>>

\* one iteration of for numAttacks, pAtk := range attacksDist, in any order
IterateAttack ==
    /\ pc = "loop"
    /\ \E numAttacks \in todo :
          LET acc == attackIteration(numAttacks, attacksDist[numAttacks], req, probs,
                                     damageDist,
                                     [hits |-> hitsDist, wounds |-> woundsDist,
                                      pens |-> pensDist, killed |-> killedDist])
          IN  /\ hitsDist' = acc.hits
              /\ woundsDist' = acc.wounds
              /\ pensDist' = acc.pens
              /\ killedDist' = acc.killed
              /\ todo' = todo \ {numAttacks}
    /\ UNCHANGED <<req, pc, err, attacksDist, damageDist, probs, resp, prev, iter, frame,
                   http>>

\* return formatResponse(hitsDist, woundsDist, pensDist, killedDist), nil
Return ==
    /\ pc = "loop"
    /\ todo = {}
    /\ resp' = formatResponse(hitsDist, woundsDist, pensDist, killedDist)
    /\ pc' = "done"
    /\ UNCHANGED <<req, err, attacksDist, damageDist, probs, todo, hitsDist,
                   woundsDist, pensDist, killedDist, prev, iter, frame, http>>

Next == ParseAttacks \/ Setup \/ IterateAttack \/ Return

Spec == Init /\ [][Next]_vars

----------------------------------------------------------------------------
(* The engine in floating point.  A range loop over a Go map visits the    *)
(* keys in an order the language leaves open; here it is the ascending     *)
(* order rotated by rot.  An operator with the suffix F is the function of *)
(* that name computed with the float operations, in the order in which the *)
(* source applies them (no fused multiply-add).                            *)

PairLess(a, b) == a[1] < b[1] \/ (a[1] = b[1] /\ a[2] < b[2])

\* the integers of S in ascending order
SortInts(S) ==
    [i \in 1..Cardinality(S) |->
        CHOOSE x \in S : Cardinality({y \in S : y < x}) = i - 1]

\* the pairs of S in ascending order
SortPairs(S) ==
    [i \in 1..Cardinality(S) |->
        CHOOSE x \in S : Cardinality({y \in S : PairLess(y, x)}) = i - 1]

\* seq started at its element number (rot mod length) + 1
Rotate(seq, rot) ==
    LET n == Len(seq)
    IN  [i \in 1..n |-> seq[((i - 1 + rot) % n) + 1]]

\* the keys of a map with integer keys / with pairs as keys, as a range loop
\* visits them
RangeInts(m, rot) == Rotate(SortInts(DOMAIN m), rot)

RangePairs(m, rot) == Rotate(SortPairs(DOMAIN m), rot)

\* m[k] += v
AddTo(m, k, v) ==
    IF k \in DOMAIN m THEN [m EXCEPT ![k] = FAdd(@, v)] ELSE m @@ (k :> v)

\* the float64 of a parsed probability n/d
ToFloat(q) == FDiv(FInt(q[1]), FInt(q[2]))

\* a PMF of the parsers as floats; exact for the PMF {n: 1.0} of a fixed
\* number, the only kind SpecFloat draws
FloatPMF(dist) == [k \in DOMAIN dist |-> ToFloat(dist[k])]

oneSixthF == FDiv(FInt(1), FInt(6))

fiveSixthsF == FDiv(FInt(5), FInt(6))

calculateHitProbabilityF(bs, rerollType, hitModifier, lethalHits) ==
    LET targetRollChance == FDiv(FAdd(FSub(FInt(7), FInt(bs)), FInt(hitModifier)), FInt(6))
        base == FMax(oneSixthF, FMin(targetRollChance, fiveSixthsF))
        missChance == FSub(FOne, base)
        hitChance ==
            IF rerollType = RerollOnes THEN FAdd(base, FMul(oneSixthF, base))
            ELSE IF rerollType = RerollFail THEN FAdd(base, FMul(missChance, base))
            ELSE base
        lethalHitChance ==
            IF rerollType = RerollOnes THEN FAdd(oneSixthF, FMul(oneSixthF, oneSixthF))
            ELSE IF rerollType = RerollFail THEN FAdd(oneSixthF, FMul(missChance, oneSixthF))
            ELSE oneSixthF
    IN  IF lethalHits
        THEN <<FMax(FZero, FSub(hitChance, lethalHitChance)), lethalHitChance>>
        ELSE <<hitChance, FZero>>

calculateWoundProbabilityF(s, t, rerollType, woundModifier, devastatingWounds) ==
    LET raw == FSub(FInt(targetRoll(s, t)), FInt(woundModifier))
        finalTargetRoll == FMax(FInt(2), FMin(FInt(6), raw))
        base == FDiv(FSub(FInt(7), finalTargetRoll), FInt(6))
        missChance == FSub(FOne, base)
        woundChance ==
            IF rerollType = RerollOnes THEN FAdd(base, FMul(oneSixthF, base))
            ELSE IF rerollType = RerollFail THEN FAdd(base, FMul(missChance, base))
            ELSE base
        devastatingWoundChance ==
            IF rerollType = RerollOnes THEN FAdd(oneSixthF, FMul(oneSixthF, oneSixthF))
            ELSE IF rerollType = RerollFail THEN FAdd(oneSixthF, FMul(missChance, oneSixthF))
            ELSE oneSixthF
    IN  IF devastatingWounds
        THEN <<FMax(FZero, FSub(woundChance, devastatingWoundChance)),
               devastatingWoundChance>>
        ELSE <<woundChance, FZero>>

calculateFailedSaveProbabilityF(ap, save, invulnerable, saveModifier) ==
    LET armorSaveTarget == save + ap - saveModifier
        best == IF invulnerable # Nil /\ invulnerable[1] < armorSaveTarget
                THEN invulnerable[1] ELSE armorSaveTarget
        finalTarget == IF best < 2 THEN 2 ELSE best
    IN  IF finalTarget > 6 THEN FOne
        ELSE FSub(FOne, FDiv(FSub(FInt(7), FInt(finalTarget)), FInt(6)))

\* for st, p := range res of getHitOutcomes, from the i-th key on
RECURSIVE hitRangeF(_, _, _, _, _, _)
hitRangeF(next, res, keys, i, pHit, pLethal) ==
    IF i > Len(keys) THEN next
    ELSE LET st == keys[i]
             p  == res[st]
             n1 == AddTo(next, st, FMul(p, FSub(FOne, FAdd(pHit, pLethal))))
             n2 == AddTo(n1, <<st[1] + 1, st[2]>>, FMul(p, pHit))
             n3 == AddTo(n2, <<st[1], st[2] + 1>>, FMul(p, pLethal))
         IN  hitRangeF(n3, res, keys, i + 1, pHit, pLethal)

RECURSIVE hitTrialsF(_, _, _, _, _)
hitTrialsF(res, i, pHit, pLethal, rot) ==
    IF i <= 0 THEN res
    ELSE hitTrialsF(hitRangeF(EmptyMap, res, RangePairs(res, rot), 1, pHit, pLethal),
                    i - 1, pHit, pLethal, rot)

getHitOutcomesF(n, pHit, pLethal, rot) ==
    hitTrialsF((<<0, 0>> :> FOne), n, pHit, pLethal, rot)

\* for st, p := range res of getWoundOutcomes, from the i-th key on
RECURSIVE woundRangeF(_, _, _, _, _, _)
woundRangeF(next, res, keys, i, pWound, pDev) ==
    IF i > Len(keys) THEN next
    ELSE LET st == keys[i]
             p  == res[st]
             n1 == AddTo(next, st, FMul(p, FSub(FOne, FAdd(pWound, pDev))))
             n2 == AddTo(n1, <<st[1] + 1, st[2]>>, FMul(p, pWound))
             n3 == AddTo(n2, <<st[1], st[2] + 1>>, FMul(p, pDev))
         IN  woundRangeF(n3, res, keys, i + 1, pWound, pDev)

RECURSIVE woundTrialsF(_, _, _, _, _)
woundTrialsF(res, i, pWound, pDev, rot) ==
    IF i <= 0 THEN res
    ELSE woundTrialsF(woundRangeF(EmptyMap, res, RangePairs(res, rot), 1, pWound, pDev),
                      i - 1, pWound, pDev, rot)

getWoundOutcomesF(nHit, lHit, pWound, pDev, rot) ==
    woundTrialsF((<<lHit, 0>> :> FOne), nHit, pWound, pDev, rot)

\* for st, p := range res of the first loop of getUnsavedOutcomes
RECURSIVE saveRangeF(_, _, _, _, _)
saveRangeF(next, res, keys, i, pFail) ==
    IF i > Len(keys) THEN next
    ELSE LET st == keys[i]
             p  == res[st]
             n1 == AddTo(next, st, FMul(p, FSub(FOne, pFail)))
             n2 == AddTo(n1, <<st[1] + 1, st[2]>>, FMul(p, pFail))
         IN  saveRangeF(n2, res, keys, i + 1, pFail)

RECURSIVE saveTrialsF(_, _, _, _)
saveTrialsF(res, i, pFail, rot) ==
    IF i <= 0 THEN res
    ELSE saveTrialsF(saveRangeF(EmptyMap, res, RangePairs(res, rot), 1, pFail),
                     i - 1, pFail, rot)

\* for st, p := range res of the second loop of getUnsavedOutcomes
RECURSIVE mortalRangeF(_, _, _, _)
mortalRangeF(next, res, keys, i) ==
    IF i > Len(keys) THEN next
    ELSE mortalRangeF(AddTo(next, <<keys[i][1], keys[i][2] + 1>>, res[keys[i]]),
                      res, keys, i + 1)

RECURSIVE mortalTrialsF(_, _, _)
mortalTrialsF(res, i, rot) ==
    IF i <= 0 THEN res
    ELSE mortalTrialsF(mortalRangeF(EmptyMap, res, RangePairs(res, rot), 1), i - 1, rot)

getUnsavedOutcomesF(nWnd, dWnd, pFail, rot) ==
    mortalTrialsF(saveTrialsF((<<0, 0>> :> FOne), nWnd, pFail, rot), dWnd, rot)

\* for dVal, dP := range dmgDist of applyWounds, from the j-th key on
RECURSIVE damageRangeF(_, _, _, _, _, _, _, _, _)
damageRangeF(next, st, p, dmgDist, keys, j, maxHP, totalModels, spills) ==
    IF j > Len(keys) THEN next
    ELSE damageRangeF(AddTo(next, woundTarget(st, keys[j], maxHP, totalModels, spills),
                            FMul(p, dmgDist[keys[j]])),
                      st, p, dmgDist, keys, j + 1, maxHP, totalModels, spills)

\* for st, p := range states of applyWounds, from the i-th key on
RECURSIVE stateRangeF(_, _, _, _, _, _, _, _, _)
stateRangeF(next, states, keys, i, dmgDist, maxHP, totalModels, spills, rot) ==
    IF i > Len(keys) THEN next
    ELSE LET st == keys[i]
             p  == states[st]
         IN  stateRangeF(
                 IF st[1] >= totalModels THEN AddTo(next, st, p)
                 ELSE damageRangeF(next, st, p, dmgDist, RangeInts(dmgDist, rot), 1,
                                   maxHP, totalModels, spills),
                 states, keys, i + 1, dmgDist, maxHP, totalModels, spills, rot)

applyWoundsF(states, dmgDist, maxHP, totalModels, spills, rot) ==
    stateRangeF(EmptyMap, states, RangePairs(states, rot), 1, dmgDist, maxHP,
                totalModels, spills, rot)

RECURSIVE applyWoundsTimesF(_, _, _, _, _, _, _)
applyWoundsTimesF(states, i, dmgDist, maxHP, totalModels, spills, rot) ==
    IF i <= 0 THEN states
    ELSE applyWoundsTimesF(applyWoundsF(states, dmgDist, maxHP, totalModels, spills, rot),
                           i - 1, dmgDist, maxHP, totalModels, spills, rot)

\* for st, p := range states { final[st.Killed] += p }, from the i-th key on
RECURSIVE collapseRangeF(_, _, _, _)
collapseRangeF(final, states, keys, i) ==
    IF i > Len(keys) THEN final
    ELSE collapseRangeF(AddTo(final, keys[i][1], states[keys[i]]), states, keys, i + 1)

resolveDamageSequentialF(nNorm, nMortal, dmgDist, maxHP, totalModels, rot) ==
    LET states ==
            applyWoundsTimesF(
                applyWoundsTimesF((<<0, maxHP>> :> FOne), nNorm, dmgDist, maxHP,
                                  totalModels, FALSE, rot),
                nMortal, dmgDist, maxHP, totalModels, TRUE, rot)
    IN  collapseRangeF(EmptyMap, states, RangePairs(states, rot), 1)

\* for numKilled, pKilled := range killedMap { killedDist[numKilled] += weight * pKilled }
RECURSIVE killedRangeF(_, _, _, _, _)
killedRangeF(killed, killedMap, keys, i, weight) ==
    IF i > Len(keys) THEN killed
    ELSE killedRangeF(AddTo(killed, keys[i], FMul(weight, killedMap[keys[i]])),
                      killedMap, keys, i + 1, weight)

\* for uo, pUO := range unsavedOutcomes, from the i-th key on; acc holds
\* pensDist and killedDist, w is pAtk * pHO * pWO
RECURSIVE unsavedRangeF(_, _, _, _, _, _, _, _)
unsavedRangeF(acc, unsavedOutcomes, keys, i, w, dmgDist, r, rot) ==
    IF i > Len(keys) THEN acc
    ELSE LET uo == keys[i]
             weight == FMul(w, unsavedOutcomes[uo])
             killedMap == resolveDamageSequentialF(uo[1], uo[2], dmgDist,
                                                   r.WoundsPerModel, r.NumModels, rot)
         IN  unsavedRangeF(
                 [pens   |-> AddTo(acc.pens, uo[1] + uo[2], weight),
                  killed |-> killedRangeF(acc.killed, killedMap,
                                          RangeInts(killedMap, rot), 1, weight)],
                 unsavedOutcomes, keys, i + 1, w, dmgDist, r, rot)

\* avg += float64(k) * v over dist, from the i-th key on
RECURSIVE averageRangeF(_, _, _, _)
averageRangeF(avg, dist, keys, i) ==
    IF i > Len(keys) THEN avg
    ELSE averageRangeF(FAdd(avg, FMul(FInt(keys[i]), dist[keys[i]])), dist, keys, i + 1)

averageF(dist, rot) == averageRangeF(FZero, dist, RangeInts(dist, rot), 1)

formatResponseF(hits, wounds, pens, killed, rot) ==
    [AverageHits           |-> averageF(hits, rot),
     AverageDestroyed      |-> averageF(killed, rot),
     HitsDistribution      |-> hits,
     WoundsDistribution    |-> wounds,
     PensDistribution      |-> pens,
     DestroyedDistribution |-> killed,
     Message               |-> Cardinality(DOMAIN killed)]

EmptyResponseF ==
    [AverageHits           |-> FZero,
     AverageDestroyed      |-> FZero,
     HitsDistribution      |-> EmptyMap,
     WoundsDistribution    |-> EmptyMap,
     PensDistribution      |-> EmptyMap,
     DestroyedDistribution |-> EmptyMap,
     Message               |-> 0]

----------------------------------------------------------------------------
(* SpecFloat: successive calls of CalculateDamageCore in floating point,   *)
(* each with a map iteration order of its own.  prev holds the request,    *)
(* the response and the error of the calls that have returned.             *)

\* fixed attack counts and damage, so that the parsed PMFs are {n: 1.0}
FloatRequests ==
    {[BaseRequest EXCEPT !.AttacksString = a, !.BS = bs, !.HitReroll = rr,
                         !.LethalHits = lh] :
        a \in {<<"1">>, <<"3">>, <<"x">>}, bs \in 1..2,
        rr \in {RerollNone, RerollOnes}, lh \in BOOLEAN}

InitFloat ==
    /\ req \in FloatRequests
    /\ pc = "start"
    /\ err = FALSE
    /\ attacksDist = EmptyMap
    /\ damageDist = EmptyMap
    /\ probs = NoProbs
    /\ todo = {}
    /\ hitsDist = EmptyMap
    /\ woundsDist = EmptyMap
    /\ pensDist = EmptyMap
    /\ killedDist = EmptyMap
    /\ resp = EmptyResponseF
    /\ prev = <<>>
    /\ iter = NoIter
    /\ frame = NoFrame
    /\ http = NoHttp

\* lines 43-60: the attacks and damage PMFs, the probabilities, the empty
\* accumulators; or the return of the error of CalculateAttackDistribution
StartF ==
    /\ pc = "start"
    /\ LET a == CalculateAttackDistribution(req.AttacksString)
           h == calculateHitProbabilityF(req.BS, req.HitReroll, req.HitModifier,
                                         req.LethalHits)
           w == calculateWoundProbabilityF(req.S, req.T, req.WoundReroll,
                                           req.WoundModifier, req.DevastatingWounds)
       IN  IF a.ok
           THEN \E rot \in 0..MaxRotation :
                /\ attacksDist' = FloatPMF(a.dist)
                /\ damageDist' = FloatPMF(calculateDamageDistribution(req.D, req.FeelNoPain))
                /\ probs' = [hitP      |-> h[1],
                             lethalP   |-> h[2],
                             woundP    |-> w[1],
                             devP      |-> w[2],
                             saveFailP |-> calculateFailedSaveProbabilityF(
                                               req.AP, req.Save, req.Invulnerable,
                                               req.SaveModifier)]
                /\ iter' = [NoIter EXCEPT !.order = rot,
                                          !.atkTodo = RangeInts(a.dist, rot)]
                /\ pc' = "loop"
                /\ UNCHANGED <<err, resp>>
           ELSE /\ err' = TRUE
                /\ resp' = EmptyResponseF
                /\ pc' = "error"
                /\ UNCHANGED <<attacksDist, damageDist, probs, iter>>
    /\ UNCHANGED <<req, todo, hitsDist, woundsDist, pensDist, killedDist, prev, frame,
                   http>>

\* lines 65-69: the next numAttacks and its hitOutcomes
NextAttackF ==
    /\ pc = "loop"
    /\ iter.woTodo = <<>> /\ iter.hoTodo = <<>> /\ iter.atkTodo # <<>>
    /\ LET numAttacks == Head(iter.atkTodo)
           hitOutcomes == getHitOutcomesF(numAttacks, probs.hitP, probs.lethalP,
                                          iter.order)
       IN  iter' = [iter EXCEPT !.atkTodo = Tail(@),
                                !.numAttacks = numAttacks,
                                !.hitOutcomes = hitOutcomes,
                                !.hoTodo = RangePairs(hitOutcomes, iter.order)]
    /\ UNCHANGED <<req, pc, err, attacksDist, damageDist, probs, todo, hitsDist,
                   woundsDist, pensDist, killedDist, resp, prev, frame, http>>

\* lines 70-75: the next ho, its term of hitsDist and its woundOutcomes
NextHitF ==
    /\ pc = "loop"
    /\ iter.woTodo = <<>> /\ iter.hoTodo # <<>>
    /\ LET ho == Head(iter.hoTodo)
           pAtk == attacksDist[iter.numAttacks]
           pHO == iter.hitOutcomes[ho]
           woundOutcomes == getWoundOutcomesF(ho[1], ho[2], probs.woundP, probs.devP,
                                              iter.order)
       IN  /\ hitsDist' = AddTo(hitsDist, ho[1] + ho[2], FMul(pAtk, pHO))
           /\ iter' = [iter EXCEPT !.hoTodo = Tail(@),
                                   !.ho = ho,
                                   !.woundOutcomes = woundOutcomes,
                                   !.woTodo = RangePairs(woundOutcomes, iter.order)]
    /\ UNCHANGED <<req, pc, err, attacksDist, damageDist, probs, todo, woundsDist,
                   pensDist, killedDist, resp, prev, frame, http>>

\* lines 76-95: the next wo, its term of woundsDist, and the whole loop over
\* its unsavedOutcomes
NextWoundF ==
    /\ pc = "loop"
    /\ iter.woTodo # <<>>
    /\ LET wo == Head(iter.woTodo)
           pAtk == attacksDist[iter.numAttacks]
           pHO == iter.hitOutcomes[iter.ho]
           pWO == iter.woundOutcomes[wo]
           w == FMul(FMul(pAtk, pHO), pWO)
           unsavedOutcomes == getUnsavedOutcomesF(wo[1], wo[2], probs.saveFailP,
                                                  iter.order)
           acc == unsavedRangeF([pens |-> pensDist, killed |-> killedDist],
                                unsavedOutcomes,
                                RangePairs(unsavedOutcomes, iter.order), 1, w,
                                damageDist, req, iter.order)
       IN  /\ woundsDist' = AddTo(woundsDist, wo[1] + wo[2], w)
           /\ pensDist' = acc.pens
           /\ killedDist' = acc.killed
           /\ iter' = [iter EXCEPT !.woTodo = Tail(@)]
    /\ UNCHANGED <<req, pc, err, attacksDist, damageDist, probs, todo, hitsDist,
                   resp, prev, frame, http>>

\* line 99: return formatResponse(...), nil
ReturnF ==
    /\ pc = "loop"
    /\ iter.woTodo = <<>> /\ iter.hoTodo = <<>> /\ iter.atkTodo = <<>>
    /\ resp' = formatResponseF(hitsDist, woundsDist, pensDist, killedDist, iter.order)
    /\ pc' = "done"
    /\ UNCHANGED <<req, err, attacksDist, damageDist, probs, todo, hitsDist,
                   woundsDist, pensDist, killedDist, prev, iter, frame, http>>

\* the next call: on the same request, or on one that differs from it only
\* by a bs larger by one
CallAgainF ==
    /\ pc \in {"done", "error"}
    /\ Len(prev) + 1 < MaxCalls
    /\ prev' = Append(prev, [req |-> req, resp |-> resp, err |-> err])
    /\ req' \in {req, [req EXCEPT !.BS = @ + 1]}
    /\ pc' = "start"
    /\ err' = FALSE
    /\ attacksDist' = EmptyMap
    /\ damageDist' = EmptyMap
    /\ probs' = NoProbs
    /\ hitsDist' = EmptyMap
    /\ woundsDist' = EmptyMap
    /\ pensDist' = EmptyMap
    /\ killedDist' = EmptyMap
    /\ resp' = EmptyResponseF
    /\ iter' = NoIter
    /\ UNCHANGED <<todo, frame, http>>

NextFloat == StartF \/ NextAttackF \/ NextHitF \/ NextWoundF \/ ReturnF \/ CallAgainF

SpecFloat == InitFloat /\ [][NextFloat]_vars

----------------------------------------------------------------------------
(* SpecCalls: one call of one function of the engine on inputs drawn from  *)
(* bounded sets.  The inputs are fields of req (and nNorm, nMortal of      *)
(* frame); pc names the function to call ("hit", "wound", "save",          *)
(* "attacks", "damage", "resolve") and, once it has returned, the function *)
(* followed by " done".  resolveDamageSequential is followed loop by loop: *)
(* pc = "wounds" inside it.                                                *)

\* the decimal string of n, 0 <= n <= 9
NumStr(n) == <<DigitSeq[n + 1]>>

\* nothing or one blank, before and after an expression
Pads == {<<>>, <<" ">>}

\* [count] 'd' faces ['+' modifier], in either letter case, with blanks around
DiceString(lead, count, d, faces, modifier, trail) ==
    lead \o count \o <<d>> \o faces \o modifier \o trail

DiceStrings ==
    {DiceString(lead, count, d, faces, modifier, trail) :
        lead \in Pads,
        count \in {<<>>} \cup {NumStr(n) : n \in 0..MaxDice},
        d \in {"d", "D"},
        faces \in {NumStr(n) : n \in 1..MaxDice},
        modifier \in {<<>>} \cup {<<"+">> \o NumStr(n) : n \in 0..MaxDice},
        trail \in Pads}

IntStrings == {lead \o NumStr(n) \o trail : lead \in Pads, n \in 0..MaxDice, trail \in Pads}

\* strings that are neither an integer nor a dice expression of the grammar
OtherStrings == {<<"x">>, <<"d">>, <<"2", "d">>, <<"d", "2", "+">>, <<"d", "2", " ", "1">>,
                 <<"-", "1">>, <<"+", "2">>, <<>>}

HitInputs ==
    {[BaseRequest EXCEPT !.BS = bs, !.HitModifier = hm, !.HitReroll = rr,
                         !.LethalHits = lh] :
        bs \in -1..MaxStat, hm \in -MaxMod..MaxMod, rr \in RerollType, lh \in BOOLEAN}

WoundInputs ==
    {[BaseRequest EXCEPT !.S = st, !.T = t, !.WoundModifier = wm, !.WoundReroll = rr,
                         !.DevastatingWounds = dev] :
        st \in 1..MaxStat, t \in 1..MaxStat, wm \in -MaxMod..MaxMod,
        rr \in RerollType, dev \in BOOLEAN}

SaveInputs ==
    {[BaseRequest EXCEPT !.AP = ap, !.Save = sv, !.Invulnerable = inv,
                         !.SaveModifier = sm] :
        ap \in -1..MaxStat, sv \in 1..MaxStat,
        inv \in {Nil} \cup {Some(v) : v \in 1..MaxStat}, sm \in -MaxMod..MaxMod}

\* one string, as attacks_string and as d
ParseInputs ==
    {[BaseRequest EXCEPT !.AttacksString = str, !.D = str] :
        str \in DiceStrings \cup IntStrings \cup OtherStrings}

DamageInputs ==
    {[BaseRequest EXCEPT !.D = d, !.FeelNoPain = fnp] :
        d \in {NumStr(n) : n \in 0..MaxDice}
                 \cup {<<"d", "3">>, <<"2", "d", "2">>, <<"d", "2", "+", "1">>}
                 \cup OtherStrings \cup {<<"d", "0">>},
        fnp \in {Nil} \cup {Some(v) : v \in -1..MaxStat}}

\* the units and damage strings CalculateDamageCore passes on without a test
UnitInputs ==
    {[BaseRequest EXCEPT !.NumModels = nm, !.WoundsPerModel = wpm, !.D = d] :
        nm \in -1..MaxModels, wpm \in -1..MaxModels,
        d \in {<<"0">>, <<"1">>, <<"2">>, <<"3">>, <<"d", "3">>, <<"-", "1">>}}

ResolveFrames ==
    {[NoFrame EXCEPT !.nNorm = n, !.nMortal = m] : n \in 0..MaxWounds, m \in 0..MaxWounds}

\* a unit and the damage of one wound: an integer, negative too
ApplyInputs ==
    {[BaseRequest EXCEPT !.NumModels = nm, !.WoundsPerModel = wpm, !.D = d] :
        nm \in 1..MaxModels, wpm \in 1..MaxModels,
        d \in {NumStr(n) : n \in 0..MaxDamage} \cup {<<"-", "1">>}}

\* a call of applyWounds on one state of the unit of r, terminal or not
ApplyFrames(r) ==
    {[NoFrame EXCEPT !.states = (<<k, hp>> :> ROne), !.st = <<k, hp>>, !.spills = b] :
        k \in 0..r.NumModels, hp \in 1..r.WoundsPerModel, b \in BOOLEAN}

\* the per-roll chances a convolver is called with: two outcomes of a roll
\* of a six-sided die that exclude each other
ChancePairs ==
    {<<R(c[1], 6), R(c[2], 6)>> : c \in {d \in (0..6) \X (0..6) : d[1] + d[2] <= 6}}

InitCalls ==
    /\ \/ /\ pc = "hit" /\ req \in HitInputs
          /\ frame = NoFrame /\ iter = NoIter /\ probs = NoProbs
       \/ /\ pc = "wound" /\ req \in WoundInputs
          /\ frame = NoFrame /\ iter = NoIter /\ probs = NoProbs
       \/ /\ pc = "save" /\ req \in SaveInputs
          /\ frame = NoFrame /\ iter = NoIter /\ probs = NoProbs
       \/ /\ pc = "attacks" /\ req \in ParseInputs
          /\ frame = NoFrame /\ iter = NoIter /\ probs = NoProbs
       \/ /\ pc = "damage" /\ req \in ParseInputs \cup DamageInputs
          /\ frame = NoFrame /\ iter = NoIter /\ probs = NoProbs
       \/ /\ pc = "resolve" /\ req \in UnitInputs
          /\ frame \in ResolveFrames /\ iter = NoIter /\ probs = NoProbs
       \/ /\ pc = "apply" /\ req \in ApplyInputs
          /\ frame \in ApplyFrames(req) /\ iter = NoIter /\ probs = NoProbs
       \/ /\ pc = "hitOutcomes" /\ req = BaseRequest /\ frame = NoFrame
          /\ iter \in {[NoIter EXCEPT !.numAttacks = n] : n \in 0..MaxTrials}
          /\ probs \in {[NoProbs EXCEPT !.hitP = c[1], !.lethalP = c[2]] :
                            c \in ChancePairs}
       \/ /\ pc = "woundOutcomes" /\ req = BaseRequest /\ frame = NoFrame
          /\ iter \in {[NoIter EXCEPT !.ho = ho] :
                           ho \in (0..MaxTrials) \X (0..MaxTrials)}
          /\ probs \in {[NoProbs EXCEPT !.woundP = c[1], !.devP = c[2],
                                         !.saveFailP = R(f, 6)] :
                            c \in ChancePairs, f \in 0..6}
    /\ err = FALSE
    /\ attacksDist = EmptyMap
    /\ damageDist = EmptyMap
    /\ todo = {}
    /\ hitsDist = EmptyMap
    /\ woundsDist = EmptyMap
    /\ pensDist = EmptyMap
    /\ killedDist = EmptyMap
    /\ resp = EmptyResponse
    /\ prev = <<>>
    /\ http = NoHttp

\* hitP, lethalP := _calculateHitProbability(...)
CallHitProbability ==
    /\ pc = "hit"
    /\ LET h == calculateHitProbability(req.BS, req.HitReroll, req.HitModifier,
                                        req.LethalHits)
       IN  probs' = [probs EXCEPT !.hitP = h[1], !.lethalP = h[2]]
    /\ pc' = "hit done"
    /\ UNCHANGED <<req, err, attacksDist, damageDist, todo, hitsDist, woundsDist,
                   pensDist, killedDist, resp, prev, iter, frame, http>>

\* woundP, devP := _calculateWoundProbability(...)
CallWoundProbability ==
    /\ pc = "wound"
    /\ LET w == calculateWoundProbability(req.S, req.T, req.WoundReroll,
                                          req.WoundModifier, req.DevastatingWounds)
       IN  probs' = [probs EXCEPT !.woundP = w[1], !.devP = w[2]]
    /\ pc' = "wound done"
    /\ UNCHANGED <<req, err, attacksDist, damageDist, todo, hitsDist, woundsDist,
                   pensDist, killedDist, resp, prev, iter, frame, http>>

\* saveFailP := _calculateFailedSaveProbability(...)
CallFailedSaveProbability ==
    /\ pc = "save"
    /\ probs' = [probs EXCEPT !.saveFailP =
                    calculateFailedSaveProbability(req.AP, req.Save, req.Invulnerable,
                                                   req.SaveModifier)]
    /\ pc' = "save done"
    /\ UNCHANGED <<req, err, attacksDist, damageDist, todo, hitsDist, woundsDist,
                   pensDist, killedDist, resp, prev, iter, frame, http>>

\* attacksDist, err := CalculateAttackDistribution(req.AttacksString)
CallAttackDistribution ==
    /\ pc = "attacks"
    /\ LET a == CalculateAttackDistribution(req.AttacksString)
       IN  /\ attacksDist' = a.dist
           /\ err' = ~a.ok
    /\ pc' = "attacks done"
    /\ UNCHANGED <<req, damageDist, probs, todo, hitsDist, woundsDist, pensDist,
                   killedDist, resp, prev, iter, frame, http>>

\* damageDist := _calculateDamageDistribution(req.D, req.FeelNoPain)
CallDamageDistribution ==
    /\ pc = "damage"
    /\ damageDist' = calculateDamageDistribution(req.D, req.FeelNoPain)
    /\ pc' = "damage done"
    /\ UNCHANGED <<req, err, attacksDist, probs, todo, hitsDist, woundsDist, pensDist,
                   killedDist, resp, prev, iter, frame, http>>

\* states = applyWounds(states, dmgDist, maxHP, totalModels, spills) with
\* the damage PMF of the request
CallApplyWounds ==
    /\ pc = "apply"
    /\ damageDist' = calculateDamageDistribution(req.D, req.FeelNoPain)
    /\ frame' = [frame EXCEPT !.states = applyWounds(@, damageDist', req.WoundsPerModel,
                                                     req.NumModels, frame.spills)]
    /\ pc' = "apply done"
    /\ UNCHANGED <<req, err, attacksDist, probs, todo, hitsDist, woundsDist, pensDist,
                   killedDist, resp, prev, iter, http>>

\* hitOutcomes := getHitOutcomes(numAttacks, hitP, lethalP)
CallHitOutcomes ==
    /\ pc = "hitOutcomes"
    /\ iter' = [iter EXCEPT !.hitOutcomes =
                    getHitOutcomes(iter.numAttacks, probs.hitP, probs.lethalP)]
    /\ pc' = "hitOutcomes done"
    /\ UNCHANGED <<req, err, attacksDist, damageDist, probs, todo, hitsDist, woundsDist,
                   pensDist, killedDist, resp, prev, frame, http>>

\* woundOutcomes := getWoundOutcomes(ho.normal, ho.lethal, woundP, devP)
CallWoundOutcomes ==
    /\ pc = "woundOutcomes"
    /\ iter' = [iter EXCEPT !.woundOutcomes =
                    getWoundOutcomes(iter.ho[1], iter.ho[2], probs.woundP, probs.devP)]
    /\ pc' = "woundOutcomes done"
    /\ UNCHANGED <<req, err, attacksDist, damageDist, probs, todo, hitsDist, woundsDist,
                   pensDist, killedDist, resp, prev, frame, http>>

\* for wo := range woundOutcomes:
\* unsavedOutcomes := getUnsavedOutcomes(wo.normal, wo.devastating, saveFailP)
CallUnsavedOutcomes ==
    /\ pc = "woundOutcomes done"
    /\ \E wo \in DOMAIN iter.woundOutcomes :
          iter' = [iter EXCEPT !.wo = wo,
                               !.unsavedOutcomes =
                                   getUnsavedOutcomes(wo[1], wo[2], probs.saveFailP)]
    /\ pc' = "unsavedOutcomes done"
    /\ UNCHANGED <<req, err, attacksDist, damageDist, probs, todo, hitsDist, woundsDist,
                   pensDist, killedDist, resp, prev, frame, http>>

\* a faulty order of the loops of resolveDamageSequential: the mortal wounds
\* first
woundLoopMortalFirst(f) ==
    IF f.iMortal < f.nMortal THEN "mortal"
    ELSE IF f.iNorm < f.nNorm THEN "normal"
    ELSE "collapse"

\* the loop of resolveDamageSequential a call is in, by the counters of its
\* two loops: the loop of the normal wounds, then that of the mortal wounds,
\* then the collapse of states
woundLoop(f) ==
    IF f.iNorm < f.nNorm THEN "normal"
    ELSE IF f.iMortal < f.nMortal THEN "mortal"
    ELSE "collapse"

\* the call of resolveDamageSequential with the damage PMF of the request:
\* states := {(0, maxHP): 1.0}
ResolveStart ==
    /\ pc = "resolve"
    /\ damageDist' = calculateDamageDistribution(req.D, req.FeelNoPain)
    /\ frame' = [frame EXCEPT !.iNorm = 0, !.iMortal = 0,
                              !.states = (<<0, req.WoundsPerModel>> :> ROne)]
    /\ pc' = "wounds"
    /\ UNCHANGED <<req, err, attacksDist, probs, todo, hitsDist, woundsDist, pensDist,
                   killedDist, resp, prev, iter, http>>

\* states = applyWounds(states, dmgDist, maxHP, totalModels, false)
ResolveNormal ==
    /\ pc = "wounds"
    /\ woundLoop(frame) = "normal"
    /\ frame' = [frame EXCEPT !.iNorm = @ + 1,
                              !.states = applyWounds(@, damageDist, req.WoundsPerModel,
                                                     req.NumModels, FALSE)]
    /\ UNCHANGED <<req, pc, err, attacksDist, damageDist, probs, todo, hitsDist,
                   woundsDist, pensDist, killedDist, resp, prev, iter, http>>

\* states = applyWounds(states, dmgDist, maxHP, totalModels, true)
ResolveMortal ==
    /\ pc = "wounds"
    /\ woundLoop(frame) = "mortal"
    /\ frame' = [frame EXCEPT !.iMortal = @ + 1,
                              !.states = applyWounds(@, damageDist, req.WoundsPerModel,
                                                     req.NumModels, TRUE)]
    /\ UNCHANGED <<req, pc, err, attacksDist, damageDist, probs, todo, hitsDist,
                   woundsDist, pensDist, killedDist, resp, prev, iter, http>>

\* final[st.Killed] += p over states, and the return of final
ResolveCollapse ==
    /\ pc = "wounds"
    /\ woundLoop(frame) = "collapse"
    /\ killedDist' = [k \in {st[1] : st \in DOMAIN frame.states} |->
                         RSumPairs({st \in DOMAIN frame.states : st[1] = k},
                                   frame.states)]
    /\ pc' = "resolve done"
    /\ UNCHANGED <<req, err, attacksDist, damageDist, probs, todo, hitsDist,
                   woundsDist, pensDist, resp, prev, iter, frame, http>>

NextCalls ==
    \/ CallHitProbability
    \/ CallWoundProbability
    \/ CallFailedSaveProbability
    \/ CallAttackDistribution
    \/ CallDamageDistribution
    \/ CallApplyWounds
    \/ CallHitOutcomes
    \/ CallWoundOutcomes
    \/ CallUnsavedOutcomes
    \/ ResolveStart
    \/ ResolveNormal
    \/ ResolveMortal
    \/ ResolveCollapse

SpecCalls == InitCalls /\ [][NextCalls]_vars

----------------------------------------------------------------------------
(* SpecLive: the steps of a call under weak fairness, that is, a call that *)
(* can take a step takes one.  A behaviour is one call of                  *)
(* CalculateDamageCore (pc from "start" on, as under Spec) or one run of   *)
(* the mortal-wound loop of applyWounds, pass by pass (pc = "spill", with  *)
(* rem and st = (killed, hp) in frame), on any integers.  The fairness     *)
(* condition is stated on Advance, what a step of NextLive does to pc,     *)
(* todo and frame: Advance can be taken exactly where NextLive can, and    *)
(* every step of NextLive is a step of Advance.                            *)

\* the requests of the calls: the units of UnitRequests, with no and with
\* negative num_models and wounds_per_model, and requests with an
\* attacks_string that is refused, one with no attack count, a negative
\* count and the counts 0 to 2, with a positive and a negative damage
LiveRequests ==
    UnitRequests \cup
    {[BaseRequest EXCEPT !.AttacksString = a, !.NumModels = nm,
                         !.WoundsPerModel = wpm, !.D = d, !.DevastatingWounds = dev] :
        a \in {<<"x">>, <<"d", "0">>, <<"0">>, <<"-", "1">>, <<"1">>, <<"d", "2">>},
        nm \in {-1, 0, 2}, wpm \in {-1, 0, 2},
        d \in {<<"2">>, <<"-", "1">>}, dev \in BOOLEAN}

\* maxHP and totalModels of the loop: any integers
SpillInputs ==
    {[BaseRequest EXCEPT !.NumModels = nm, !.WoundsPerModel = wpm] :
        nm \in -1..MaxModels, wpm \in -1..MaxModels}

\* killed, hp and rem := dVal at the head of the loop: any integers
SpillFrames ==
    {[NoFrame EXCEPT !.st = <<k, hp>>, !.rem = d, !.spills = TRUE] :
        k \in 0..MaxModels, hp \in -1..MaxModels, d \in -1..MaxDamage}

InitLive ==
    /\ \/ pc = "start" /\ req \in LiveRequests /\ frame = NoFrame
       \/ pc = "spill" /\ req \in SpillInputs /\ frame \in SpillFrames
    /\ err = FALSE
    /\ attacksDist = EmptyMap
    /\ damageDist = EmptyMap
    /\ probs = NoProbs
    /\ todo = {}
    /\ hitsDist = EmptyMap
    /\ woundsDist = EmptyMap
    /\ pensDist = EmptyMap
    /\ killedDist = EmptyMap
    /\ resp = EmptyResponse
    /\ prev = <<>>
    /\ iter = NoIter
    /\ http = NoHttp

\* one pass of for rem > 0 && killed < totalModels { ... }
SpillPass ==
    /\ pc = "spill"
    /\ frame.rem > 0 /\ frame.st[1] < req.NumModels
    /\ LET n == spillStep(frame.rem, frame.st[2], frame.st[1], req.WoundsPerModel)
       IN  frame' = [frame EXCEPT !.rem = n.rem, !.st = <<n.killed, n.hp>>]
    /\ UNCHANGED <<req, pc, err, attacksDist, damageDist, probs, todo, hitsDist,
                   woundsDist, pensDist, killedDist, resp, prev, iter, http>>

\* the loop condition is false: next[UnitState{killed, hp}] += prob
SpillExit ==
    /\ pc = "spill"
    /\ ~(frame.rem > 0 /\ frame.st[1] < req.NumModels)
    /\ frame' = [frame EXCEPT !.states = frame.st :> ROne]
    /\ pc' = "spill done"
    /\ UNCHANGED <<req, err, attacksDist, damageDist, probs, todo, hitsDist,
                   woundsDist, pensDist, killedDist, resp, prev, iter, http>>

NextLive ==
    \/ ParseAttacks
    \/ Setup
    \/ IterateAttack
    \/ Return
    \/ SpillPass
    \/ SpillExit

\* the position of a call: pc, the attack counts still to visit, and the
\* variables of the mortal-wound loop
position == <<pc, todo, frame>>

\* a step of NextLive, as the change of the position
Advance ==
    \/ pc = "start" /\ pc' \in {"parsed", "error"} /\ UNCHANGED <<todo, frame>>
    \/ /\ pc = "parsed"
       /\ \A n \in DOMAIN attacksDist : n <= MaxAttacks
       /\ pc' = "loop"
       /\ todo' = DOMAIN attacksDist
       /\ UNCHANGED frame
    \/ /\ pc = "loop" /\ todo # {}
       /\ \E n \in todo : todo' = todo \ {n}
       /\ UNCHANGED <<pc, frame>>
    \/ pc = "loop" /\ todo = {} /\ pc' = "done" /\ UNCHANGED <<todo, frame>>
    \/ /\ pc = "spill"
       /\ frame.rem > 0 /\ frame.st[1] < req.NumModels
       /\ LET n == spillStep(frame.rem, frame.st[2], frame.st[1], req.WoundsPerModel)
          IN  frame' = [frame EXCEPT !.rem = n.rem, !.st = <<n.killed, n.hp>>]
       /\ UNCHANGED <<pc, todo>>
    \/ /\ pc = "spill"
       /\ ~(frame.rem > 0 /\ frame.st[1] < req.NumModels)
       /\ pc' = "spill done"
       /\ frame' = [frame EXCEPT !.states = frame.st :> ROne]
       /\ UNCHANGED todo

SpecLive == InitLive /\ [][NextLive]_vars /\ WF_position(Advance)

----------------------------------------------------------------------------
(* SpecHttp: one HTTP request served by                                    *)
(* LoggingMiddleware(http.HandlerFunc(CalculateDamageHandler)).  A header  *)
(* set and a context are functions from names to strings.  The body of the *)
(* request is empty, malformed (no JSON document) or the JSON document of  *)
(* a DamageRequest, given by the request it decodes to.  The call of       *)
(* CalculateDamageCore inside the handler is made of the actions of Spec.  *)

\* http.Header.Get: "" for a header that is not set
HeaderGet(h, name) == IF name \in DOMAIN h THEN h[name] ELSE ""

\* http.Header.Set and context.WithValue
WithValue(m, name, v) == [k \in DOMAIN m \cup {name} |-> IF k = name THEN v ELSE m[k]]

\* GetRequestID: the value stored under RequestIDKey, "" when there is none
GetRequestID(ctx) == IF "request_id" \in DOMAIN ctx THEN ctx["request_id"] ELSE ""

\* what newRequestID can return: a version-4 UUID made of random bytes, or
\* the decimal clock reading when rand.Read fails
NewRequestIDs == {"3f2a9c1e-7b4d-4e8a-9c0f-1a2b3c4d5e6f", "1762041600000000000"}

\* the X-Request-ID headers a client sends: none, an empty one, or an ID
ClientHeaders ==
    {<<>>} \cup {[n \in {"X-Request-ID"} |-> v] : v \in {"", "client-1", "client-2"}}

Methods == {"POST", "GET"}

\* the bodies a client sends
Bodies ==
    {[kind |-> k, value |-> BaseRequest] : k \in {"empty", "malformed"}}
        \cup {[kind |-> "json",
               value |-> [BaseRequest EXCEPT !.AttacksString = a, !.NumModels = nm]] :
                  a \in {<<"1">>, <<"2">>, <<"x">>}, nm \in {1, 2}}

\* SendError: the content type, the status code and the APIError body
SendError(h, reqID, code) ==
    [h EXCEPT !.respHeader = WithValue(@, "Content-Type", "application/json"),
              !.status = code,
              !.respBody = [written |-> TRUE, request_uuid |-> reqID]]

InitHttp ==
    /\ http \in {[NoHttp EXCEPT !.stage = "received", !.method = m, !.header = h,
                                !.body = b] :
                    m \in Methods, h \in ClientHeaders, b \in Bodies}
    /\ req = BaseRequest
    /\ pc = "idle"
    /\ err = FALSE
    /\ attacksDist = EmptyMap
    /\ damageDist = EmptyMap
    /\ probs = NoProbs
    /\ todo = {}
    /\ hitsDist = EmptyMap
    /\ woundsDist = EmptyMap
    /\ pensDist = EmptyMap
    /\ killedDist = EmptyMap
    /\ resp = EmptyResponse
    /\ prev = <<>>
    /\ iter = NoIter
    /\ frame = NoFrame

\* LoggingMiddleware up to next.ServeHTTP(rw, r): the request ID of the
\* client or a new one, put into the context and the response header
MiddlewareBefore ==
    /\ http.stage = "received"
    /\ \E new \in NewRequestIDs :
          LET client == HeaderGet(http.header, "X-Request-ID")
              reqID  == IF client = "" THEN new ELSE client
          IN  http' = [http EXCEPT !.stage = "handler",
                                   !.reqID = reqID,
                                   !.generated = (client = ""),
                                   !.ctx = WithValue(@, "request_id", reqID),
                                   !.respHeader = WithValue(@, "X-Request-ID", reqID)]
    /\ UNCHANGED <<req, pc, err, attacksDist, damageDist, probs, todo, hitsDist,
                   woundsDist, pensDist, killedDist, resp, prev, iter, frame>>

\* CalculateDamageHandler for a method other than POST
HandlerMethodNotAllowed ==
    /\ http.stage = "handler"
    /\ http.method # "POST"
    /\ http' = [SendError(http, "", 405) EXCEPT !.stage = "returned"]
    /\ UNCHANGED <<req, pc, err, attacksDist, damageDist, probs, todo, hitsDist,
                   woundsDist, pensDist, killedDist, resp, prev, iter, frame>>

\* CalculateDamageHandler for a body that does not decode
HandlerDecodeError ==
    /\ http.stage = "handler"
    /\ http.method = "POST"
    /\ http.body.kind # "json"
    /\ LET reqID == GetRequestID(http.ctx)
       IN  http' = [SendError([http EXCEPT !.handlerReqID = reqID], reqID, 400)
                       EXCEPT !.stage = "returned"]
    /\ UNCHANGED <<req, pc, err, attacksDist, damageDist, probs, todo, hitsDist,
                   woundsDist, pensDist, killedDist, resp, prev, iter, frame>>

\* CalculateDamageHandler up to the call of CalculateDamageCore(req)
HandlerCallCore ==
    /\ http.stage = "handler"
    /\ http.method = "POST"
    /\ http.body.kind = "json"
    /\ http' = [http EXCEPT !.stage = "core", !.handlerReqID = GetRequestID(http.ctx)]
    /\ req' = http.body.value
    /\ pc' = "start"
    /\ UNCHANGED <<err, attacksDist, damageDist, probs, todo, hitsDist, woundsDist,
                   pensDist, killedDist, resp, prev, iter, frame>>

\* CalculateDamageHandler after CalculateDamageCore returned an error
HandlerCoreError ==
    /\ http.stage = "core"
    /\ pc = "error"
    /\ http' = [SendError(http, http.handlerReqID, 400) EXCEPT !.stage = "returned"]
    /\ UNCHANGED <<req, pc, err, attacksDist, damageDist, probs, todo, hitsDist,
                   woundsDist, pensDist, killedDist, resp, prev, iter, frame>>

\* CalculateDamageHandler after CalculateDamageCore returned a response:
\* resp.RequestUUID = reqID, status 200 and the response as the body
HandlerRespond ==
    /\ http.stage = "core"
    /\ pc = "done"
    /\ http' = [http EXCEPT !.stage = "returned",
                            !.respHeader = WithValue(@, "Content-Type", "application/json"),
                            !.status = 200,
                            !.respBody = [written |-> TRUE,
                                          request_uuid |-> http.handlerReqID]]
    /\ UNCHANGED <<req, pc, err, attacksDist, damageDist, probs, todo, hitsDist,
                   woundsDist, pensDist, killedDist, resp, prev, iter, frame>>

\* LoggingMiddleware after next.ServeHTTP(rw, r): the END line of the log
MiddlewareAfter ==
    /\ http.stage = "returned"
    /\ http' = [http EXCEPT !.stage = "served"]
    /\ UNCHANGED <<req, pc, err, attacksDist, damageDist, probs, todo, hitsDist,
                   woundsDist, pensDist, killedDist, resp, prev, iter, frame>>

NextHttp ==
    \/ MiddlewareBefore
    \/ HandlerMethodNotAllowed
    \/ HandlerDecodeError
    \/ HandlerCallCore
    \/ ParseAttacks
    \/ Setup
    \/ IterateAttack
    \/ Return
    \/ HandlerCoreError
    \/ HandlerRespond
    \/ MiddlewareAfter

SpecHttp == InitHttp /\ [][NextHttp]_vars

----------------------------------------------------------------------------
(* Properties of CalculateDamageCore under Spec.                           *)

\* the call has returned
Returned == pc \in {"done", "error"}

\* the call has returned an error and the empty response
Rejected == pc = "error" /\ err /\ resp = EmptyResponse

\* no distribution has been computed
NoPMFComputed ==
    /\ attacksDist = EmptyMap
    /\ damageDist = EmptyMap
    /\ hitsDist = EmptyMap
    /\ woundsDist = EmptyMap
    /\ pensDist = EmptyMap
    /\ killedDist = EmptyMap

\* every probability of dist is at least 0 and they sum to 1
IsPMF(dist) ==
    /\ \A k \in DOMAIN dist : RLeq(RZero, dist[k])
    /\ RSum(dist) = ROne

\* two maps give every outcome the same probability
SamePMF(p, q) == \A k \in DOMAIN p \cup DOMAIN q : Get(p, k) = Get(q, k)

\* the grammar  integer | [count] 'd' faces ['+' modifier]  with non-negative
\* integer parts, on the trimmed string
Conforms(str) ==
    LET s  == TrimSpace(str)
        n  == Len(s)
        i1 == SkipDigits(s, 1)
        i2 == SkipDigits(s, i1 + 1)
        i3 == SkipDigits(s, i2 + 1)
    IN  \/ n >= 1 /\ AllDigits(s)
        \/ /\ i1 <= n
           /\ s[i1] \in {"d", "D"}
           /\ i2 > i1 + 1
           /\ \/ i2 = n + 1
              \/ i2 <= n /\ s[i2] = "+" /\ i3 > i2 + 1 /\ i3 = n + 1

\* C1: a request with num_models <= 0 is answered with an error and no
\* distributions, and is rejected before any PMF is computed.
C1_NumModelsRejected ==
    req.NumModels <= 0 => /\ NoPMFComputed
                          /\ Returned => Rejected

\* C2: a request with wounds_per_model <= 0 is answered with an error
\* (InvalidUnit) and no distributions.
C2_WoundsPerModelRejected ==
    (req.WoundsPerModel <= 0 /\ Returned) => Rejected

\* C3: with the torrent flag set every attack hits (pNormalHit = 1,
\* pLethalHit = 0), so the returned hits distribution is the attacks PMF.
C3_TorrentAutoHit ==
    req.Torrent =>
        /\ pc \in {"loop", "done"} => probs.hitP = ROne /\ probs.lethalP = RZero
        /\ pc = "done" => SamePMF(resp.HitsDistribution, attacksDist)

\* C4: an attacks string that does not conform to the grammar is answered
\* with an error and the empty response, and no PMF is produced for it.
C4_NonConformingRejected ==
    ~Conforms(req.AttacksString) =>
        /\ pc # "start" => Rejected
        /\ NoPMFComputed

\* C5: the PMF of every attacks string that CalculateAttackDistribution
\* accepts sums to 1 and has no key below 0.
C5_AttackPMF ==
    pc \in {"parsed", "loop", "done"} =>
        /\ RSum(attacksDist) = ROne
        /\ \A k \in DOMAIN attacksDist : k >= 0

\* C6: the hits, wounds, pens and destroyed distributions of every accepted
\* request are non-negative and each sums to 1.
C6_FourPMFs ==
    pc = "done" =>
        /\ IsPMF(resp.HitsDistribution)
        /\ IsPMF(resp.WoundsDistribution)
        /\ IsPMF(resp.PensDistribution)
        /\ IsPMF(resp.DestroyedDistribution)

\* C7: every key of hits_distribution lies in [0, max_attacks], max_attacks
\* being the largest key of the attacks PMF.
C7_HitsSupport ==
    pc = "done" =>
        \A k \in DOMAIN resp.HitsDistribution :
            /\ 0 <= k
            /\ \E n \in DOMAIN attacksDist : k <= n

\* C8: every key of destroyed_distribution lies in [0, num_models].
C8_DestroyedSupport ==
    pc = "done" =>
        \A k \in DOMAIN resp.DestroyedDistribution : 0 <= k /\ k <= req.NumModels

\* C16: a damage string that is neither an integer nor a dice expression
\* gives the damage PMF {0: 1} and no error, with destroyed_distribution
\* {0: 1}; the same string as attacks_string is rejected with an error.
C16_DamageFallback ==
    /\ ~Conforms(req.D) =>
          /\ pc \in {"loop", "done"} => damageDist = (0 :> ROne)
          /\ pc = "done" => ~err /\ resp.DestroyedDistribution = (0 :> ROne)
    /\ (~Conforms(req.AttacksString) /\ Returned) => Rejected

\* C19: with bs 1, no hit modifier, no reroll and no torrent the one attack
\* of attacks_string "1" always hits: average_hits is 1 and
\* hits_distribution is {1: 1}.
C19_BsOneAutoHit ==
    (/\ pc = "done"
     /\ req.BS = 1 /\ req.HitModifier = 0 /\ req.HitReroll = RerollNone
     /\ ~req.Torrent /\ req.AttacksString = <<"1">>)
    => /\ resp.AverageHits = ROne
       /\ SamePMF(resp.HitsDistribution, 1 :> ROne)

\* the request of C20: one attack, bs 4, s 5 against t 3, no save, damage 1,
\* one model of one wound
IsVerificationRequest ==
    req = [BaseRequest EXCEPT !.NumModels = 1, !.WoundsPerModel = 1, !.S = 5,
                              !.T = 3, !.Save = 7]

\* C20: for the request of one attack with bs 4, s 5, t 3, ap 0, save 7,
\* damage 1 against one model of one wound, hits_distribution is
\* {0: 1/2, 1: 1/2}; the wound roll needed is 3+ and average_destroyed is
\* 1/2 * 4/6 = 1/3.
C20_VerificationCase ==
    (IsVerificationRequest /\ pc = "done") =>
        /\ SamePMF(resp.HitsDistribution, (0 :> R(1, 2)) @@ (1 :> R(1, 2)))
        /\ probs.woundP = R(4, 6)
        /\ probs.saveFailP = ROne
        /\ resp.AverageDestroyed = R(1, 3)

\* the request of C20 has been answered
C20_Witness ==
    /\ IsVerificationRequest /\ pc = "done" /\ ~err
    /\ resp.AverageDestroyed = RMul(R(1, 2), R(4, 6))

\* C20 as stated: the same hits_distribution, the wound roll needed is 2+
\* and average_destroyed is 1/2 * 5/6 = 5/12.
C20_VerificationCaseTwoPlus ==
    (IsVerificationRequest /\ pc = "done") =>
        /\ SamePMF(resp.HitsDistribution, (0 :> R(1, 2)) @@ (1 :> R(1, 2)))
        /\ resp.AverageDestroyed = R(5, 12)

----------------------------------------------------------------------------
(* Properties of an HTTP exchange under SpecHttp.                          *)

\* C21: once CalculateDamageHandler has written its response, the
\* X-Request-ID response header, the request ID in the context of the
\* handler and request_uuid of the body are one non-empty string: the
\* X-Request-ID of the client when it sent a non-empty one, else an ID
\* that newRequestID has generated.
C21_OneRequestID ==
    http.stage \in {"returned", "served"} =>
        LET id == HeaderGet(http.respHeader, "X-Request-ID")
            client == HeaderGet(http.header, "X-Request-ID")
        IN  /\ id # ""
            /\ GetRequestID(http.ctx) = id
            /\ http.respBody.written /\ http.respBody.request_uuid = id
            /\ IF client # "" THEN id = client /\ ~http.generated
               ELSE id \in NewRequestIDs /\ http.generated

----------------------------------------------------------------------------
(* Properties of successive calls under SpecFloat.                         *)

\* C9: a call on the request of an earlier call returns the very response of
\* that call: the same distributions and averages, bit for bit.
C9_SameRequestSameResponse ==
    pc = "done" =>
        \A i \in 1..Len(prev) : prev[i].req = req => prev[i].resp = resp

\* C10: of two accepted requests that differ only by bs, the one with the
\* larger bs has an average_hits that is not larger.
C10_LargerBsNoMoreHits ==
    pc = "done" =>
        \A i \in 1..Len(prev) :
            (/\ ~prev[i].err
             /\ req.BS > prev[i].req.BS
             /\ req = [prev[i].req EXCEPT !.BS = req.BS])
            => FLeq(resp.AverageHits, prev[i].resp.AverageHits)

----------------------------------------------------------------------------
(* Properties of the single functions under SpecCalls.                     *)

\* x limited to lo..hi
Clamp(x, lo, hi) == RMax(lo, RMin(x, hi))

\* the chance of a success after the rerolls, for a base chance
Rerolled(base, rr) ==
    IF rr = RerollOnes THEN RAdd(base, RMul(base, R(1, 6)))
    ELSE IF rr = RerollFail THEN RAdd(base, RMul(RSub(ROne, base), base))
    ELSE base

\* the share of critical successes (lethal hits, devastating wounds): none
\* without the rule, otherwise 1/6, plus 1/36 for "ones", plus (1 - base)/6
\* for "fail"
Critical(base, rr, rule) ==
    IF ~rule THEN RZero
    ELSE IF rr = RerollOnes THEN RAdd(R(1, 6), R(1, 36))
    ELSE IF rr = RerollFail THEN RAdd(R(1, 6), RMul(RSub(ROne, base), R(1, 6)))
    ELSE R(1, 6)

\* C11: _calculateHitProbability returns (hit, pLethal) with
\* base = clamp((7 - bs + hit_modifier)/6, 1/6, 5/6), total the base after
\* the rerolls, pLethal the lethal share and hit = max(0, total - pLethal);
\* BS 4+, reroll fail, lethal gives (1/2, 1/4).
C11_HitProbability ==
    pc = "hit done" =>
        LET base == Clamp(R(7 - req.BS + req.HitModifier, 6), R(1, 6), R(5, 6))
            total == Rerolled(base, req.HitReroll)
            pLethal == Critical(base, req.HitReroll, req.LethalHits)
        IN  /\ probs.lethalP = pLethal
            /\ probs.hitP = RMax(RZero, RSub(total, pLethal))
            /\ (/\ req.BS = 4 /\ req.HitModifier = 0 /\ req.HitReroll = RerollFail
                /\ req.LethalHits)
               => probs.hitP = R(1, 2) /\ probs.lethalP = R(1, 4)

\* the example of C11 has been computed
C11_Witness ==
    /\ pc = "hit done"
    /\ req.BS = 4 /\ req.HitModifier = 0 /\ req.HitReroll = RerollFail /\ req.LethalHits
    /\ probs.hitP = R(1, 2) /\ probs.lethalP = R(1, 4)

\* the wound rolls the table of strength against toughness allows
WoundTargets(s, t) ==
    {r \in 2..6 : \/ r = 2 /\ s >= 2 * t
                  \/ r = 3 /\ t < s /\ s < 2 * t
                  \/ r = 4 /\ s = t
                  \/ r = 5 /\ s < t /\ t < 2 * s
                  \/ r = 6 /\ 2 * s <= t}

\* C12: for s >= 1 and t >= 1 _calculateWoundProbability takes the target
\* roll of the table, final = clamp(target - wound_modifier, 2, 6) and the
\* base (7 - final)/6; rerolls and devastating wounds then compose as rerolls
\* and lethal hits do for the hit roll.
C12_WoundProbability ==
    (pc = "wound done" /\ req.S >= 1 /\ req.T >= 1) =>
        /\ Cardinality(WoundTargets(req.S, req.T)) = 1
        /\ \A target \in WoundTargets(req.S, req.T) :
              LET raw == target - req.WoundModifier
                  final == IF raw < 2 THEN 2 ELSE IF raw > 6 THEN 6 ELSE raw
                  base == R(7 - final, 6)
                  total == Rerolled(base, req.WoundReroll)
                  pDev == Critical(base, req.WoundReroll, req.DevastatingWounds)
              IN  /\ probs.devP = pDev
                  /\ probs.woundP = RMax(RZero, RSub(total, pDev))

\* a wound roll of 2+ that a modifier of +1 cannot improve, with rerolled
\* ones and devastating wounds: (7/9, 7/36)
C12_Witness ==
    /\ pc = "wound done"
    /\ req.S = 2 * req.T /\ req.WoundModifier = 1
    /\ req.WoundReroll = RerollOnes /\ req.DevastatingWounds
    /\ probs.woundP = R(7, 9) /\ probs.devP = R(7, 36)

\* the larger and the smaller of two integers
IntMax(a, b) == IF a >= b THEN a ELSE b

IntMin(a, b) == IF a <= b THEN a ELSE b

\* the save roll needed: the armor save worsened by ap and improved by the
\* modifier, or the invulnerable save as it is if that is lower; never
\* below 2
SaveTarget(r) ==
    IF r.Invulnerable # Nil
    THEN IntMax(2, IntMin(r.Save + r.AP - r.SaveModifier, r.Invulnerable[1]))
    ELSE IntMax(2, r.Save + r.AP - r.SaveModifier)

\* C13: _calculateFailedSaveProbability returns 1 when the save target T is
\* above 6 and 1 - (7 - T)/6 otherwise; the save modifier is never applied to
\* the invulnerable save (ap 3, save 3, modifier +1, invulnerable 4: 3/6).
C13_FailedSaveProbability ==
    pc = "save done" =>
        /\ probs.saveFailP = IF SaveTarget(req) > 6 THEN ROne
                             ELSE RSub(ROne, R(7 - SaveTarget(req), 6))
        /\ (/\ req.AP = 3 /\ req.Save = 3 /\ req.SaveModifier = 1
            /\ req.Invulnerable = Some(4))
           => probs.saveFailP = R(3, 6)

\* the example of C13 has been computed
C13_Witness ==
    /\ pc = "save done"
    /\ req.AP = 3 /\ req.Save = 3 /\ req.SaveModifier = 1 /\ req.Invulnerable = Some(4)
    /\ probs.saveFailP = R(1, 2)

\* C14: with save = 7 and no invulnerable save the save fails with
\* probability 1, for every ap >= 0 and every save modifier.
C14_NoSaveAlwaysFails ==
    (/\ pc = "save done"
     /\ req.Save = 7 /\ req.Invulnerable = Nil /\ req.AP >= 0)
    => probs.saveFailP = ROne

\* the sum of the first n rolls of a tuple of rolls
RECURSIVE SumOfRolls(_, _)
SumOfRolls(rolls, n) == IF n = 0 THEN 0 ELSE rolls[n] + SumOfRolls(rolls, n - 1)

\* the PMF of the sum of count independent uniform dice on 1..faces, every
\* key shifted by modifier: the share of the faces^count tuples with that sum
DicePMF(count, faces, modifier) ==
    LET tuples == [1..count -> 1..faces]
    IN  [k \in {SumOfRolls(t, count) + modifier : t \in tuples} |->
            R(Cardinality({t \in tuples : SumOfRolls(t, count) + modifier = k}),
              faces ^ count)]

\* the number a part of a dice expression stands for: absent is the default
PartValue(str, default) ==
    IF str = <<>> THEN default ELSE CHOOSE n \in 0..MaxDice : NumStr(n) = str

\* dist is the PMF of the string str, for every way of reading str as a dice
\* expression with faces >= 1 or as a bare integer
IsPMFOfString(dist, str) ==
    /\ \A lead \in Pads, trail \in Pads, d \in {"d", "D"},
          count \in {<<>>} \cup {NumStr(n) : n \in 0..MaxDice},
          faces \in {NumStr(n) : n \in 1..MaxDice},
          modifier \in {<<>>} \cup {NumStr(n) : n \in 0..MaxDice} :
            str = DiceString(lead, count, d, faces,
                             IF modifier = <<>> THEN <<>> ELSE <<"+">> \o modifier, trail)
            => dist = DicePMF(PartValue(count, 1), PartValue(faces, 1),
                              PartValue(modifier, 0))
    /\ \A lead \in Pads, trail \in Pads, n \in 0..MaxDice :
            str = lead \o NumStr(n) \o trail => dist = (n :> ROne)

\* C15: for every dice expression [count]d<faces>[+modifier] with faces >= 1,
\* in any letter case and with blanks around, the attacks parser and the
\* damage parser both return the PMF of the sum of count uniform dice on
\* 1..faces shifted by the modifier ({modifier: 1} for count 0); a bare
\* integer n gives {n: 1}.
C15_DicePMF ==
    /\ pc = "attacks done" =>
          /\ IsPMFOfString(attacksDist, req.AttacksString)
          /\ req.AttacksString \in DiceStrings \cup IntStrings => ~err
    /\ (pc = "damage done" /\ req.FeelNoPain = Nil) => IsPMFOfString(damageDist, req.D)

\* the attacks parser has read " 2D3+1 "
C15_Witness ==
    /\ pc = "attacks done"
    /\ req.AttacksString = <<" ", "2", "D", "3", "+", "1", " ">>
    /\ ~err
    /\ attacksDist = (3 :> R(1, 9) @@ 4 :> R(2, 9) @@ 5 :> R(3, 9) @@ 6 :> R(2, 9)
                        @@ 7 :> R(1, 9))

RECURSIVE Factorial(_)
Factorial(n) == IF n <= 0 THEN 1 ELSE n * Factorial(n - 1)

\* C(n, k), the number of ways to choose k of n
Choose(n, k) ==
    IF k < 0 \/ k > n THEN 0
    ELSE Factorial(n) \div (Factorial(k) * Factorial(n - k))

\* the chance that feel_no_pain f saves one point of damage
FnpSaveChance(f) == IF f <= 1 THEN ROne ELSE IF f >= 7 THEN RZero ELSE R(7 - f, 6)

\* PMF[k] = sum over n of p(n) * C(n,k) * pFail^k * pSave^(n-k)
FnpPMF(p, f) ==
    LET pSave == FnpSaveChance(f)
        pFail == RSub(ROne, pSave)
    IN  [k \in UNION {0..n : n \in DOMAIN p} |->
            RSumOver(DOMAIN p,
                     [n \in DOMAIN p |->
                        RMul(p[n], RMul(RInt(Choose(n, k)),
                                        RMul(RPow(pFail, k), RPow(pSave, n - k))))])]

\* C17: with feel_no_pain f the damage PMF is the binomial thinning of the
\* base damage PMF p by pSave = (7 - f)/6 (1 for f <= 1: PMF {0: 1}; 0 for
\* f >= 7: the base PMF), and it sums to 1; "2" with 5 gives
\* {0: 1/9, 1: 4/9, 2: 4/9}.
C17_FeelNoPain ==
    (pc = "damage done" /\ req.FeelNoPain # Nil) =>
        LET p == parseAndCalculateBaseDamage(req.D)
            f == req.FeelNoPain[1]
        IN  /\ SamePMF(damageDist, FnpPMF(p, f))
            /\ f <= 1 => SamePMF(damageDist, (0 :> ROne))
            /\ f >= 7 => SamePMF(damageDist, p)
            /\ RSum(damageDist) = ROne
            /\ (req.D = <<"2">> /\ f = 5)
               => SamePMF(damageDist, (0 :> R(1, 9) @@ 1 :> R(4, 9) @@ 2 :> R(4, 9)))

\* the destroyed PMF of unit states: the probability of each killed count
KilledPMF(states) ==
    [k \in {st[1] : st \in DOMAIN states} |->
        RSumPairs({st \in DOMAIN states : st[1] = k}, states)]

\* the unit states after first wounds of one kind and then wounds of the
\* other kind, from the single state (0, maxHP)
WoundsInOrder(first, firstSpills, second, secondSpills) ==
    applyWoundsTimes(
        applyWoundsTimes((<<0, req.WoundsPerModel>> :> ROne), first, damageDist,
                         req.WoundsPerModel, req.NumModels, firstSpills),
        second, damageDist, req.WoundsPerModel, req.NumModels, secondSpills)

\* C18: resolveDamageSequential starts from the single state
\* (killed 0, current_hp max_hp), applies every normal wound before any
\* mortal wound, and returns the destroyed PMF of exactly this order.
C18_NormalBeforeMortal ==
    pc \in {"wounds", "resolve done"} =>
        /\ frame.iMortal > 0 => frame.iNorm = frame.nNorm
        /\ (frame.iNorm = 0 /\ frame.iMortal = 0)
           => frame.states = (<<0, req.WoundsPerModel>> :> ROne)
        /\ pc = "resolve done" =>
              /\ frame.iNorm = frame.nNorm /\ frame.iMortal = frame.nMortal
              /\ killedDist = KilledPMF(WoundsInOrder(frame.nNorm, FALSE,
                                                      frame.nMortal, TRUE))
              /\ killedDist = resolveDamageSequential(frame.nNorm, frame.nMortal,
                                                      damageDist, req.WoundsPerModel,
                                                      req.NumModels)

\* a call with two normal wounds and a mortal one has returned, and the
\* mortal wound between the two normal ones would have given another
\* destroyed PMF
C18_Witness ==
    /\ pc = "resolve done"
    /\ frame.nNorm = 2 /\ frame.nMortal = 1
    /\ killedDist # KilledPMF(applyWoundsTimes(WoundsInOrder(1, FALSE, 1, TRUE), 1,
                                               damageDist, req.WoundsPerModel,
                                               req.NumModels, FALSE))

----------------------------------------------------------------------------
(* Properties of the convolvers under SpecCalls.                           *)

\* n! / (a! b! (n-a-b)!) * pA^a * pB^b * (1-pA-pB)^(n-a-b)
Trinomial(n, a, b, pA, pB) ==
    RMul(RInt(Factorial(n) \div (Factorial(a) * Factorial(b) * Factorial(n - a - b))),
         RMul(RPow(pA, a),
              RMul(RPow(pB, b), RPow(RSub(ROne, RAdd(pA, pB)), n - a - b))))

\* the pairs (a, b) with a, b >= 0 and a + b <= n
PairsUpTo(n) == {p \in (0..n) \X (0..n) : p[1] + p[2] <= n}

\* C22: getHitOutcomes(n, pA, pB) is the trinomial distribution: its keys are
\* the pairs (a, b) with a, b >= 0 and a + b <= n, the probability of (a, b)
\* is n!/(a! b! (n-a-b)!) pA^a pB^b (1-pA-pB)^(n-a-b), and they sum to 1.
C22_Trinomial ==
    pc = "hitOutcomes done" =>
        LET n == iter.numAttacks
            out == iter.hitOutcomes
        IN  /\ DOMAIN out = PairsUpTo(n)
            /\ \A p \in DOMAIN out :
                  out[p] = Trinomial(n, p[1], p[2], probs.hitP, probs.lethalP)
            /\ RSumPairs(DOMAIN out, out) = ROne

\* three rolls with chances 1/2 and 1/6 have been convolved: one normal hit,
\* one lethal hit and one miss have the chance 6 * 1/2 * 1/6 * 1/3 = 1/6
C22_Witness ==
    /\ pc = "hitOutcomes done"
    /\ iter.numAttacks = 3 /\ probs.hitP = R(1, 2) /\ probs.lethalP = R(1, 6)
    /\ iter.hitOutcomes[<<1, 1>>] = R(1, 6)

\* C26: for a hit outcome (nH normal, lH lethal) every wound outcome has
\* its normal wounds in lH..lH+nH and its devastating wounds in 0..nH: each
\* lethal hit is one normal wound with no wound roll (the nH normal hits
\* alone are rolled), and in the save stage a save is rolled for every
\* normal wound, those of the lethal hits too.
C26_LethalHitsWound ==
    pc \in {"woundOutcomes done", "unsavedOutcomes done"} =>
        LET nH == iter.ho[1]
            lH == iter.ho[2]
            out == iter.woundOutcomes
        IN  /\ \A wo \in DOMAIN out :
                  /\ lH <= wo[1] /\ wo[1] <= lH + nH
                  /\ 0 <= wo[2] /\ wo[2] <= nH
                  /\ out[wo] = Trinomial(nH, wo[1] - lH, wo[2], probs.woundP, probs.devP)
            /\ RSumPairs(DOMAIN out, out) = ROne
            /\ pc = "unsavedOutcomes done" =>
                  Get(iter.unsavedOutcomes, <<0, iter.wo[2]>>)
                      = RPow(RSub(ROne, probs.saveFailP), iter.wo[1])

\* two lethal hits and a normal hit that did not wound have given two normal
\* wounds, and both have been saved with the chance (1/2)^2
C26_Witness ==
    /\ pc = "unsavedOutcomes done"
    /\ iter.ho = <<1, 2>> /\ iter.wo = <<2, 0>>
    /\ probs.woundP = R(1, 2) /\ probs.devP = R(1, 6) /\ probs.saveFailP = R(1, 2)
    /\ iter.woundOutcomes[<<2, 0>>] = R(1, 3)
    /\ iter.unsavedOutcomes[<<0, 0>>] = R(1, 4)

\* C(n, k) p^k (1-p)^(n-k)
Binomial(n, k, p) ==
    RMul(RInt(Choose(n, k)), RMul(RPow(p, k), RPow(RSub(ROne, p), n - k)))

\* C27: for a wound outcome (nW normal, dW devastating) every unsaved outcome
\* of probability other than 0 has dW mortal wounds, whatever the chance of
\* a failed save is, and the number of unsaved normal wounds is binomial
\* B(nW, pSaveFail).
C27_DevastatingBypassSaves ==
    pc = "unsavedOutcomes done" =>
        LET nW == iter.wo[1]
            dW == iter.wo[2]
            out == iter.unsavedOutcomes
        IN  /\ \A uo \in DOMAIN out : out[uo] # RZero => uo[2] = dW
            /\ \A u \in 0..nW : Get(out, <<u, dW>>) = Binomial(nW, u, probs.saveFailP)
            /\ RSumPairs(DOMAIN out, out) = ROne

\* two normal and two devastating wounds against a save that never fails:
\* the two devastating wounds alone are unsaved, as mortal wounds
C27_Witness ==
    /\ pc = "unsavedOutcomes done"
    /\ iter.wo = <<2, 2>> /\ probs.saveFailP = RZero
    /\ iter.unsavedOutcomes[<<0, 2>>] = ROne

----------------------------------------------------------------------------
(* Properties of a single wound under SpecCalls.                           *)

\* the damage of the wound of a call of applyWounds
WoundDamage == CHOOSE d \in DOMAIN damageDist : TRUE

\* a call of applyWounds on one state that is not terminal has returned
WoundApplied(spills) ==
    /\ pc = "apply done"
    /\ frame.spills = spills
    /\ frame.st[1] < req.NumModels

\* C23: a normal wound of damage d moves a state (k, hp) that is not terminal
\* to (k+1, max_hp) if d >= hp and to (k, hp - d) otherwise: it kills at most
\* one model, whatever d is.
C23_NormalWound ==
    WoundApplied(FALSE) =>
        LET k == frame.st[1]
            hp == frame.st[2]
            d == WoundDamage
        IN  /\ frame.states = (IF d >= hp THEN <<k + 1, req.WoundsPerModel>>
                                          ELSE <<k, hp - d>>) :> ROne
            /\ \A st \in DOMAIN frame.states : st[1] <= k + 1

\* a normal wound of more damage than a model has wounds has killed one model
\* of a unit of several, and the rest of the damage is lost
C23_Witness ==
    /\ WoundApplied(FALSE)
    /\ WoundDamage > 2 * req.WoundsPerModel
    /\ frame.st[1] + 1 < req.NumModels
    /\ frame.states = <<frame.st[1] + 1, req.WoundsPerModel>> :> ROne

\* the state after rem points of spilling damage on the state (k, hp): models
\* are killed while the damage left is at least the hit points of the current
\* one and a model is left
RECURSIVE KillWhile(_, _, _, _, _)
KillWhile(rem, k, hp, maxHP, totalModels) ==
    IF k = totalModels THEN <<k, hp>>
    ELSE IF rem >= hp THEN KillWhile(rem - hp, k + 1, maxHP, maxHP, totalModels)
    ELSE <<k, hp - rem>>

\* C24: a mortal wound of damage d >= 0 on a state (k, hp) that is not
\* terminal kills one model after another while the damage left is at least
\* the hit points of the current model (the next one starting at max_hp),
\* and ends at (k', hp - damage left) or at k' = total_models, where the
\* damage left is dropped.
C24_MortalWound ==
    (WoundApplied(TRUE) /\ WoundDamage >= 0) =>
        frame.states = KillWhile(WoundDamage, frame.st[1], frame.st[2],
                                 req.WoundsPerModel, req.NumModels) :> ROne

\* 3 points of mortal damage on (0, 2) in a unit of 3 models of 2 wounds
\* have given (1, 1)
C24_Witness ==
    /\ WoundApplied(TRUE)
    /\ WoundDamage = 3 /\ frame.st = <<0, 2>>
    /\ req.WoundsPerModel = 2 /\ req.NumModels = 3
    /\ frame.states = <<1, 1>> :> ROne

----------------------------------------------------------------------------
(* Properties of the unit states under SpecCalls.                          *)

\* the unit states of a call of resolveDamageSequential that have a
\* probability other than 0
LiveStates == {st \in DOMAIN frame.states : frame.states[st] # RZero}

\* the states are those of a unit: killed in 0..num_models, current_hp in
\* 1..wounds_per_model, and one key at most for the whole unit killed
UnitStatesValid ==
    /\ \A st \in LiveStates :
          /\ 0 <= st[1] /\ st[1] <= req.NumModels
          /\ 1 <= st[2] /\ st[2] <= req.WoundsPerModel
    /\ Cardinality({st \in LiveStates : st[1] = req.NumModels}) <= 1

\* C25: at every point of the damage allocation of a request, every unit
\* state of probability other than 0 has 0 <= killed <= num_models and
\* 1 <= current_hp <= wounds_per_model, and the states with
\* killed = num_models have one current_hp.
C25_UnitStates ==
    pc \in {"wounds", "resolve done"} => UnitStatesValid

----------------------------------------------------------------------------
(* Properties under SpecLive.                                              *)

IsChance(x) == RLeq(RZero, x) /\ RLeq(x, ROne)

\* the two results <<normal, critical>> of a call with the special rule (on)
\* and without it (off): the total is the same, nothing is cut off at 0,
\* and all are chances
SameTotal(on, off) ==
    /\ RAdd(on[1], on[2]) = off[1]
    /\ off[2] = RZero
    /\ IsChance(on[1]) /\ IsChance(on[2]) /\ IsChance(off[1])
    /\ RLeq(RAdd(on[1], on[2]), ROne)

\* C29: for every bs, hit_modifier and reroll kind, lethal_hits does not
\* change the total hit chance: pNormal + pLethal with it is pNormal without
\* it; all values are in [0, 1] and pNormal + pLethal <= 1.  The same holds
\* for _calculateWoundProbability with devastating_wounds.
C29_SpecialRuleKeepsTotal ==
    /\ pc = "hit done" =>
          LET this == <<probs.hitP, probs.lethalP>>
              other == calculateHitProbability(req.BS, req.HitReroll, req.HitModifier,
                                               ~req.LethalHits)
          IN  IF req.LethalHits THEN SameTotal(this, other) ELSE SameTotal(other, this)
    /\ pc = "wound done" =>
          LET this == <<probs.woundP, probs.devP>>
              other == calculateWoundProbability(req.S, req.T, req.WoundReroll,
                                                 req.WoundModifier,
                                                 ~req.DevastatingWounds)
          IN  IF req.DevastatingWounds THEN SameTotal(this, other)
              ELSE SameTotal(other, this)

\* a wound roll of 6+ with devastating_wounds and rerolls of all failures:
\* every wound is a devastating one, 11/36, and no normal wound is left
C29_Witness ==
    /\ pc = "wound done"
    /\ req.DevastatingWounds /\ req.WoundReroll = RerollFail
    /\ probs.woundP = RZero /\ probs.devP = R(11, 36)

(***************************************************************************)
(* The branches of the enumeration of CalculateDamageCore, under Spec      *)
(***************************************************************************)

\* the branches below the attack count n keep the order
\* unsaved <= wounds <= hits <= n where their probability is not 0
BranchesOrdered(n) ==
    LET H == getHitOutcomes(n, probs.hitP, probs.lethalP)
    IN  \A ho \in DOMAIN H :
            H[ho] # RZero =>
                /\ ho[1] + ho[2] <= n
                /\ LET W == getWoundOutcomes(ho[1], ho[2], probs.woundP, probs.devP)
                   IN  \A wo \in DOMAIN W :
                           W[wo] # RZero =>
                               /\ wo[1] + wo[2] <= ho[1] + ho[2]
                               /\ LET U == getUnsavedOutcomes(wo[1], wo[2],
                                                              probs.saveFailP)
                                  IN  \A uo \in DOMAIN U :
                                          U[uo] # RZero =>
                                              uo[1] + uo[2] <= wo[1] + wo[2]

\* the largest keys of the three accumulators are in the same order
LargestKeysOrdered ==
    (hitsDist # EmptyMap /\ woundsDist # EmptyMap /\ pensDist # EmptyMap) =>
        /\ MaxOf(DOMAIN pensDist) <= MaxOf(DOMAIN woundsDist)
        /\ MaxOf(DOMAIN woundsDist) <= MaxOf(DOMAIN hitsDist)

\* C30: in every branch that CalculateDamageCore enumerates with a
\* probability that is not 0, unsaved wounds <= wounds <= hits <= attacks;
\* hence the largest key of pens_distribution is at most that of
\* wounds_distribution, which is at most that of hits_distribution.
C30_BranchesOrdered ==
    /\ pc \in {"loop", "done"} =>
          \A n \in DOMAIN attacksDist \ todo :
              attacksDist[n] # RZero => BranchesOrdered(n)
    /\ pc = "done" => LargestKeysOrdered
====
